---- MODULE Spec2Model ----
(***************************************************************************)
(* Model of the prScript browser extension: the content script's commit    *)
(* extraction cascade and generation cycle (content.js and its earlier     *)
(* versions), and the background dispatcher with its local fallback        *)
(* (background.js and its other versions).                                 *)
(*                                                                         *)
(* Text is modelled character by character: a string is a sequence of      *)
(* one-character strings, so that length tests, substring tests, trimming  *)
(* and the regular-expression replacements are computed as the code        *)
(* computes them.                                                          *)
(***************************************************************************)
EXTENDS Integers, Sequences, FiniteSets, TLC

VARIABLES
  variant,      \* which version of the content script runs: "current", "part000", "legacy"
  page,         \* the host page: a sequence of DOM nodes (see Elements)
  extracted,    \* the last result of extractCommitMessages run on its own: [done, commits]
  bgVariant,    \* which version of the background script runs: "detailed", "basic", "oldest"
  provider,     \* CURRENT_PROVIDER
  storedKey,    \* chrome.storage.sync openrouterApiKey ("" when none is stored)
  diff,         \* the file changes shown on the page, as extractFileChanges reports them
  buttons,      \* every generate button created so far: [label, disabled]
  attached,     \* the buttons that are in the document, in document order (indices in buttons)
  initTimer,    \* initialize's timer that will call createGenerateButton is pending
  triggerTimers,\* pending timers of triggerGeneration that will call generatePRDescription
  cycles,       \* the generation cycles waiting for their response, oldest first
  tabMessages,  \* how many messages of the background script are on their way to the tab
  requests,     \* the requests the background script is handling, oldest first
  notification, \* the notification shown last ("" if none yet)
  form,         \* the description last handed to insertDescription
  lastCall,     \* what the last run of the content script's generatePRDescription did
  scan,         \* a run of extractCodeChanges over the diff lines of one file
  synthesis,    \* a call of generateLocalPRDescription on its own: arguments and result
  injection,    \* a call of insertDescription on its own: text, form fields, effects
  keyReplies,   \* the responses to the getApiKey messages so far, oldest first
  navigation,   \* where the tab is, lastUrl of the content script, its pending timers
  chunkSummary, \* a call of generateChangeSummary(added, removed) on its own
  waiter,       \* a call of waitForElement: its promise, observer and timer
  fileHeader,   \* a call of extractSingleFileChange on its own: header text and status
  popup         \* the popup window: its key field, its status line, its pending request

vars == <<variant, page, extracted, bgVariant, provider, storedKey, diff, buttons, attached,
          initTimer, triggerTimers, cycles, tabMessages, requests, notification, form,
          lastCall, scan, synthesis, injection, keyReplies,
          navigation, chunkSummary, waiter, fileHeader, popup>>

\* the state of the content script's generation cycle, and of the background script
cycleVars == <<diff, buttons, attached, initTimer, triggerTimers, cycles, tabMessages,
               notification, form, lastCall>>
backgroundVars == <<bgVariant, provider, storedKey, requests>>
\* the state of the functions that are run on their own
unitVars == <<scan, synthesis, injection, keyReplies, navigation, chunkSummary, waiter,
              fileHeader, popup>>

-----------------------------------------------------------------------------
(* Characters and strings                                                  *)

Whitespace == {" ", "\n", "\t"}
DigitChars == {"0", "1", "2", "3", "4", "5", "6", "7", "8", "9"}
LowerChars == {"a", "b", "c", "d", "e", "f", "g", "h", "i", "j", "k", "l", "m",
               "n", "o", "p", "q", "r", "s", "t", "u", "v", "w", "x", "y", "z"}
UpperChars == {"A", "B", "C", "D", "E", "F", "G", "H", "I", "J", "K", "L", "M",
               "N", "O", "P", "Q", "R", "S", "T", "U", "V", "W", "X", "Y", "Z"}
\* \w of a JavaScript regular expression
WordChars == LowerChars \cup UpperChars \cup DigitChars \cup {"_"}

LowerChar(c) ==
  CASE c = "A" -> "a" [] c = "B" -> "b" [] c = "C" -> "c" [] c = "D" -> "d"
    [] c = "E" -> "e" [] c = "F" -> "f" [] c = "G" -> "g" [] c = "H" -> "h"
    [] c = "I" -> "i" [] c = "J" -> "j" [] c = "K" -> "k" [] c = "L" -> "l"
    [] c = "M" -> "m" [] c = "N" -> "n" [] c = "O" -> "o" [] c = "P" -> "p"
    [] c = "Q" -> "q" [] c = "R" -> "r" [] c = "S" -> "s" [] c = "T" -> "t"
    [] c = "U" -> "u" [] c = "V" -> "v" [] c = "W" -> "w" [] c = "X" -> "x"
    [] c = "Y" -> "y" [] c = "Z" -> "z" [] OTHER -> c

\* the characters of s from position a to position b, both clipped to s
Slice(s, a, b) ==
  LET lo == IF a < 1 THEN 1 ELSE a
      hi == IF b > Len(s) THEN Len(s) ELSE b
  IN  IF lo > hi THEN <<>> ELSE [i \in 1..(hi - lo + 1) |-> s[lo + i - 1]]

\* String.prototype.toLowerCase
toLowerCase(s) == [i \in 1..Len(s) |-> LowerChar(s[i])]

\* the 1-based position of the first occurrence of p in s at or after position from, 0 if none
MatchAt(s, p, i) == \A k \in 1..Len(p) : s[i + k - 1] = p[k]

IndexFrom(s, p, from) ==
  LET starts == from..(Len(s) - Len(p) + 1)
  IN  IF \E i \in starts : MatchAt(s, p, i)
      THEN CHOOSE i \in starts : MatchAt(s, p, i) /\ \A j \in from..(i - 1) : ~MatchAt(s, p, j)
      ELSE 0

indexOf(s, p) == IndexFrom(s, p, 1)

\* String.prototype.includes
includes(s, p) == \E i \in 1..(Len(s) - Len(p) + 1) : MatchAt(s, p, i)

\* String.prototype.startsWith
startsWith(s, p) == Len(s) >= Len(p) /\ MatchAt(s, p, 1)

\* String.prototype.trim
trim(s) ==
  IF \A i \in 1..Len(s) : s[i] \in Whitespace THEN <<>>
  ELSE Slice(s,
             CHOOSE i \in 1..Len(s) :
               s[i] \notin Whitespace /\ \A j \in 1..(i - 1) : s[j] \in Whitespace,
             CHOOSE i \in 1..Len(s) :
               s[i] \notin Whitespace /\ \A j \in (i + 1)..Len(s) : s[j] \in Whitespace)

\* text.match(/^\d+$/)
IsAllDigits(s) == Len(s) > 0 /\ \A i \in 1..Len(s) : s[i] \in DigitChars

\* positions lo..hi of s with every run of whitespace replaced by one space
\* (by halves, so that long strings do not nest deeply)
RECURSIVE NormalizeRange(_, _, _)
NormalizeRange(s, lo, hi) ==
  IF lo > hi THEN <<>>
  ELSE IF lo = hi
  THEN IF s[lo] \in Whitespace
       THEN (IF lo > 1 /\ s[lo - 1] \in Whitespace THEN <<>> ELSE <<" ">>)
       ELSE <<s[lo]>>
  ELSE LET mid == (lo + hi) \div 2
       IN  NormalizeRange(s, lo, mid) \o NormalizeRange(s, mid + 1, hi)

\* text.replace(/\s+/g, ' ')
NormalizeWhitespace(s) == NormalizeRange(s, 1, Len(s))

W_committed == <<"c","o","m","m","i","t","t","e","d">>                    \* "committed"
W_viewCommitDetails ==                                                    \* "view commit details"
  <<"v","i","e","w"," ","c","o","m","m","i","t"," ","d","e","t","a","i","l","s">>

\* text.replace(/committed.*$/i, ''): the leftmost "committed" (any case) that is
\* followed by no line break up to the end of the string, and everything after it
RemoveCommittedSuffix(s) ==
  LET low  == toLowerCase(s)
      hits == {i \in 1..(Len(s) - Len(W_committed) + 1) :
                 /\ MatchAt(low, W_committed, i)
                 /\ \A j \in (i + Len(W_committed))..Len(s) : s[j] # "\n"}
  IN  IF hits = {} THEN s
      ELSE Slice(s, 1, (CHOOSE i \in hits : \A j \in hits : i <= j) - 1)

\* the length of the longest run of characters of set cs starting at position i of s
RunLength(s, i, cs) ==
  LET stops == {j \in i..Len(s) : s[j] \notin cs}
  IN  IF i > Len(s) THEN 0
      ELSE IF stops = {} THEN Len(s) - i + 1
      ELSE (CHOOSE j \in stops : \A k \in stops : j <= k) - i

\* text.replace(/^\w+\s+committed\s+/i, '')
RemoveUserCommittedPrefix(s) ==
  LET w  == RunLength(s, 1, WordChars)
      s1 == RunLength(s, w + 1, Whitespace)
      c  == w + s1 + 1
      s2 == RunLength(s, c + Len(W_committed), Whitespace)
  IN  IF /\ w > 0 /\ s1 > 0
         /\ Slice(toLowerCase(s), c, c + Len(W_committed) - 1) = W_committed
         /\ s2 > 0
      THEN Slice(s, c + Len(W_committed) + s2, Len(s))
      ELSE s

\* text.replace(/view commit details/i, ''): the first occurrence, any case
RemoveViewCommitDetails(s) ==
  LET i == indexOf(toLowerCase(s), W_viewCommitDetails)
  IN  IF i = 0 THEN s
      ELSE Slice(s, 1, i - 1) \o Slice(s, i + Len(W_viewCommitDetails), Len(s))

\* text.split('\n'): the pieces between consecutive line breaks
SplitLines(s) ==
  LET breaks == {i \in 1..Len(s) : s[i] = "\n"}
      \* the position of the k-th line break; 0 before the first, Len(s)+1 after the last
      at(k) == IF k = 0 THEN 0
               ELSE IF k > Cardinality(breaks) THEN Len(s) + 1
               ELSE CHOOSE i \in breaks : Cardinality({j \in breaks : j <= i}) = k
  IN  [k \in 1..(Cardinality(breaks) + 1) |-> Slice(s, at(k - 1) + 1, at(k) - 1)]

\* Array.prototype.slice(0, n)
Take(q, n) == Slice(q, 1, IF Len(q) < n THEN Len(q) ELSE n)

\* the concatenation of the sequences qq[lo], ..., qq[hi] (by halves)
RECURSIVE FlattenRange(_, _, _)
FlattenRange(qq, lo, hi) ==
  IF lo > hi THEN <<>>
  ELSE IF lo = hi THEN qq[lo]
  ELSE LET mid == (lo + hi) \div 2
       IN  FlattenRange(qq, lo, mid) \o FlattenRange(qq, mid + 1, hi)

Flatten(qq) == FlattenRange(qq, 1, Len(qq))

-----------------------------------------------------------------------------
(* The host page.  A page is a sequence of nodes [kind, text, link]:       *)
(*   "text"            a bare text node (no element)                       *)
(*   "commit-row"      a .commit container holding a .commit-message       *)
(*                     element (text) and a commit link (link)             *)
(*   "message-anchor"  a .commit-message wrapper holding one a.message     *)
(*   any other kind    one element of that class with that text            *)
(* Elements(page) is the page's elements in document order, each           *)
(* [cls, text, messageEl]: messageEl is the text of the element that the   *)
(* commit-link fallback resolves for a link, the link's own text when the  *)
(* link has no .commit-message next to it.                                 *)

ElementKinds == {"commit-message", "commit-title", "testid-commit-message",
                 "js-commit-message", "commit-summary", "commit-desc",
                 "commit-link", "other"}
NodeKinds == ElementKinds \cup {"text", "commit-row", "message-anchor"}

Node(kind, text, link) == [kind |-> kind, text |-> text, link |-> link]
Element(cls, text, messageEl) == [cls |-> cls, text |-> text, messageEl |-> messageEl]

NodeText(n) == IF n.kind = "commit-row" THEN n.text \o n.link ELSE n.text

NodeElements(n) ==
  CASE n.kind = "text" -> <<>>
    [] n.kind = "commit-row" ->
         << Element("commit", n.text \o n.link, <<>>),
            Element("commit-message", n.text, <<>>),
            Element("commit-link", n.link, n.text) >>
    [] n.kind = "message-anchor" ->
         << Element("commit-message", n.text, <<>>),
            Element("a.message", n.text, <<>>) >>
    [] n.kind = "commit-link" -> << Element("commit-link", n.text, n.text) >>
    [] OTHER -> << Element(n.kind, n.text, <<>>) >>

Elements(pg) == Flatten([i \in 1..Len(pg) |-> NodeElements(pg[i])])

\* document.body.textContent
BodyText(pg) == Flatten([i \in 1..Len(pg) |-> NodeText(pg[i])])

\* the element classes a selector of the content script matches
SelectorClasses(selector) ==
  CASE selector = ".commit-message"                   -> {"commit-message"}
    [] selector = ".commit-title"                     -> {"commit-title"}
    [] selector = "[data-testid=\"commit-message\"]"  -> {"testid-commit-message"}
    [] selector = ".js-commit-message"                -> {"js-commit-message"}
    [] selector = ".commit-summary"                   -> {"commit-summary"}
    [] selector = ".commit-desc"                      -> {"commit-desc"}
    [] selector = "a[href*=\"/commit/\"]"             -> {"commit-link"}
    [] selector = ".commit-message a.message"         -> {"a.message"}
    [] selector = ".commit-message .message"          -> {"a.message"}
    [] selector = "*"                                 ->
         ElementKinds \cup {"commit", "a.message", "html", "body"}
    [] OTHER -> {}

\* document.querySelectorAll(selector); '*' also yields the html and body elements
querySelectorAll(pg, selector) ==
  SelectSeq((IF selector = "*"
             THEN << Element("html", BodyText(pg), <<>>), Element("body", BodyText(pg), <<>>) >>
             ELSE <<>>) \o Elements(pg),
            LAMBDA e : e.cls \in SelectorClasses(selector))

-----------------------------------------------------------------------------
(* extractCommitMessages                                                   *)

MinCommitLength == 10
MaxLineLength == 200
MaxCommits == 10
LegacyMaxCommits == 20

W_filesChanged == <<"f","i","l","e","s"," ","c","h","a","n","g","e","d">>   \* "files changed"
W_contributor == <<"c","o","n","t","r","i","b","u","t","o","r">>   \* "contributor"
W_commits == <<"c","o","m","m","i","t","s">>   \* "commits"
W_ago == <<"a","g","o">>   \* "ago"
W_commit == <<"c","o","m","m","i","t">>   \* "commit"

\* 'cread and add functionalities for the extension'
DefaultCommit1 ==
  <<"c","r","e","a","d"," ","a","n","d"," ","a","d","d"," ","f","u","n","c","t","i","o","n","a","l","i","t","i","e","s"," ","f","o","r"," ","t","h","e"," ","e","x","t","e","n","s","i","o","n">>
\* 'updated testing steps'
DefaultCommit2 == <<"u","p","d","a","t","e","d"," ","t","e","s","t","i","n","g"," ","s","t","e","p","s">>
DefaultCommits == <<DefaultCommit1, DefaultCommit2>>

commitSelectors(v) ==
  IF v = "legacy"
  THEN << ".commit-message a.message", ".commit-message .message",
          "[data-testid=\"commit-message\"]", ".js-commit-message",
          ".commit-title", ".commit-summary" >>
  ELSE << ".commit-message", ".commit-title", "[data-testid=\"commit-message\"]",
          ".js-commit-message", ".commit-summary", ".commit-desc",
          "a[href*=\"/commit/\"]" >>

\* a plausible slip: the filter without its length test
IsBoilerplate_NoLengthTest(text) ==
  \/ includes(text, W_filesChanged)
  \/ includes(text, W_contributor)
  \/ includes(text, W_commits)
  \/ IsAllDigits(text)
  \/ includes(text, W_committed)
  \/ includes(text, W_ago)

\* the filter of strategy 1: TRUE when the trimmed text is rejected
IsBoilerplate(text) ==
  \/ Len(text) < MinCommitLength
  \/ includes(text, W_filesChanged)
  \/ includes(text, W_contributor)
  \/ includes(text, W_commits)
  \/ IsAllDigits(text)
  \/ includes(text, W_committed)
  \/ includes(text, W_ago)

\* a plausible slip: the clean-up without its final trim
CleanCommitText_NoTrim(v, text) ==
  RemoveViewCommitDetails(RemoveUserCommittedPrefix(RemoveCommittedSuffix(NormalizeWhitespace(text))))

\* the clean-up of an accepted text; v selects the version's replacements
CleanCommitText(v, text) ==
  LET LastSteps(t) == IF v = "part000" THEN t ELSE trim(RemoveViewCommitDetails(t))
  IN  LastSteps(RemoveUserCommittedPrefix(RemoveCommittedSuffix(NormalizeWhitespace(text))))

\* strategy 1, one element: the text kept for it, <<>> when the map returns null
\* (the filter after the map drops null and '' alike)
SelectorText(v, el) ==
  LET LongEnough(cleaned) == IF Len(cleaned) > MinCommitLength THEN cleaned ELSE <<>>
      Kept(text) ==
        CASE v = "legacy"  -> text
          [] v = "part000" -> IF IsBoilerplate(text) THEN <<>> ELSE text
          [] OTHER ->
               IF IsBoilerplate(text) THEN <<>> ELSE LongEnough(CleanCommitText(v, text))
  IN  Kept(trim(el.text))

\* strategy 1, one selector: extractedTexts
SelectorCandidates(v, pg, selector) ==
  LET elements == querySelectorAll(pg, selector)
  IN  SelectSeq([i \in 1..Len(elements) |-> SelectorText(v, elements[i])],
                LAMBDA t : Len(t) > 0)

\* the loop without its break: the last selector that yields a non-empty set
WinningSelector_Last(v, pg) ==
  LET Last(hits) == IF hits = {} THEN 0 ELSE CHOOSE k \in hits : \A j \in hits : j <= k
  IN  Last({k \in 1..Len(commitSelectors(v)) :
              SelectorCandidates(v, pg, commitSelectors(v)[k]) # <<>>})

\* the index of the first selector that yields a non-empty set, 0 if none does
WinningSelector(v, pg) ==
  LET First(hits) == IF hits = {} THEN 0 ELSE CHOOSE k \in hits : \A j \in hits : k <= j
  IN  First({k \in 1..Len(commitSelectors(v)) :
               SelectorCandidates(v, pg, commitSelectors(v)[k]) # <<>>})

\* strategy 2, one link: the cleaned text of the resolved message element, <<>> for null
LinkText(v, link) ==
  LET LongEnough(cleaned) == IF Len(cleaned) > MinCommitLength THEN cleaned ELSE <<>>
  IN  LongEnough(CleanCommitText(v, trim(link.messageEl)))

\* strategy 2: commits from the commit links
LinkCandidates(v, pg) ==
  LET commitLinks == querySelectorAll(pg, "a[href*=\"/commit/\"]")
  IN  SelectSeq([i \in 1..Len(commitLinks) |-> LinkText(v, commitLinks[i])],
                LAMBDA t : Len(t) > 0)

\* strategy 3, one line of the page text
IsPotentialCommit(line) ==
  /\ Len(line) > MinCommitLength
  /\ Len(line) < MaxLineLength
  /\ ~includes(line, W_filesChanged)
  /\ ~includes(line, W_contributor)
  /\ ~includes(line, W_committed)
  /\ ~IsAllDigits(line)
  /\ ~includes(line, W_ago)
  /\ includes(line, <<" ">>)

\* strategy 3: potentialCommits
potentialCommits(pg) ==
  LET split == SplitLines(BodyText(pg))
      lines == SelectSeq([i \in 1..Len(split) |-> trim(split[i])], LAMBDA l : Len(l) > 0)
  IN  SelectSeq(lines, IsPotentialCommit)

\* the legacy fallback, one element: the lines it pushes
LegacyElementLines(el) ==
  IF Len(el.text) > 0 /\ includes(el.text, W_commit) /\ Len(el.text) < MaxLineLength
  THEN Take(SelectSeq(SplitLines(el.text), LAMBDA l : Len(trim(l)) > 0), MaxCommits)
  ELSE <<>>

\* the legacy fallback over every element of the document
LegacyCandidates(pg) ==
  LET allElements == querySelectorAll(pg, "*")
  IN  Flatten([i \in 1..Len(allElements) |-> LegacyElementLines(allElements[i])])

\* a plausible slip: the result is returned without the final slice
LimitCommits_NoSlice(v, commits) == commits

\* the final slice of the result
LimitCommits(v, commits) ==
  Take(commits, IF v = "legacy" THEN LegacyMaxCommits ELSE MaxCommits)

\* a plausible slip: no placeholder, the empty result is returned
PlaceholderCommits_None(commits) == commits

\* the placeholder of strategy 4
PlaceholderCommits(commits) == IF commits = <<>> THEN DefaultCommits ELSE commits

\* the cascade: the candidates of the winning level and the level's name
CascadeResult(v, pg) ==
  LET Levels(k, links, lines) ==
        IF k # 0
        THEN [level |-> "selector", selector |-> k,
              candidates |-> SelectorCandidates(v, pg, commitSelectors(v)[k])]
        ELSE IF v = "legacy"
        THEN [level |-> "elements", selector |-> 0, candidates |-> LegacyCandidates(pg)]
        ELSE IF links # <<>>
        THEN [level |-> "links", selector |-> 0, candidates |-> links]
        ELSE IF lines # <<>>
        THEN [level |-> "text", selector |-> 0, candidates |-> lines]
        ELSE [level |-> "placeholder", selector |-> 0,
              candidates |-> PlaceholderCommits(<<>>)]
  IN  Levels(WinningSelector(v, pg), LinkCandidates(v, pg), potentialCommits(pg))

extractCommitMessages(v, pg) ==
  LET Returned(won) ==
        LimitCommits(v, IF won.level = "text" THEN Take(won.candidates, MaxCommits)
                        ELSE won.candidates)
  IN  Returned(CascadeResult(v, pg))

-----------------------------------------------------------------------------
(* Pages the extraction is run on                                          *)

MaxPageNodes == 2      \* distinct nodes of a page before repetition
MaxRepeat == 11        \* a page is its nodes once, or repeated MaxRepeat times

T_ok == <<"F","i","x"," ","l","o","g","i","n"," ","b","u","g">>   \* 13 characters
T_ten == <<"f","i","x"," ","a"," ","t","y","p","o">>   \* exactly 10 characters
T_short == <<"t","y","p","o"," ","f","i","x">>   \* 8 characters
T_ago == <<"F","i","x"," ","b","u","g"," ","2"," ","d","a","y","s"," ","a","g","o">>
\* "  Merge commits to main \n": a padded line of page text
T_commits == <<" "," ","M","e","r","g","e"," ","c","o","m","m","i","t","s"," ","t","o"," ","m","a","i","n"," ","\n">>
T_digits == <<"1","2","3","4","5","6","7","8","9","0","1">>
\* "Update files\nchanged names": 'files changed' appears once whitespace is normalized
T_split == <<"U","p","d","a","t","e"," ","f","i","l","e","s","\n","c","h","a","n","g","e","d"," ","n","a","m","e","s">>
\* "Fix login bug\ncommitted now"
T_committed == <<"F","i","x"," ","l","o","g","i","n"," ","b","u","g","\n","c","o","m","m","i","t","t","e","d"," ","n","o","w">>
\* "Alice Committed the fix now": capital C passes includes('committed')
T_Committed == <<"A","l","i","c","e"," ","C","o","m","m","i","t","t","e","d"," ","t","h","e"," ","f","i","x"," ","n","o","w">>
T_details == <<"U","p","d","a","t","e"," ","d","o","c","s"," ","v","i","e","w"," ","c","o","m","m","i","t"," ","d","e","t","a","i","l","s">>
T_sha == <<"a","b","c","1","2","3","4">>
\* "refactor " 23 times: 207 characters
T_long == Flatten([i \in 1..23 |-> <<"r","e","f","a","c","t","o","r"," ">>])

PageNodes ==
  { Node("text", T_commits, <<>>),
    Node("commit-message", T_ok, <<>>),
    Node("commit-message", T_split, <<>>),
    Node("commit-message", T_Committed, <<>>),
    Node("commit-title", T_long, <<>>),
    Node("commit-title", T_ten, <<>>),
    Node("commit-title", T_details, <<>>),
    Node("commit-link", T_ago, <<>>),
    Node("commit-link", T_digits, <<>>),
    Node("commit-row", T_committed, T_sha),
    Node("message-anchor", T_short, <<>>) }

RECURSIVE SeqsUpTo(_, _)
SeqsUpTo(S, n) ==
  IF n = 0 THEN {<<>>}
  ELSE LET shorter == SeqsUpTo(S, n - 1)
       IN  shorter \cup {Append(q, x) : q \in {r \in shorter : Len(r) = n - 1}, x \in S}

RepeatPage(base, n) == Flatten([i \in 1..n |-> base])

\* the pages tried: every short page, and every node repeated to overflow the limits
Pages ==
  SeqsUpTo(PageNodes, MaxPageNodes)
    \cup {RepeatPage(<<nd>>, MaxRepeat) : nd \in PageNodes}

Variants == {"current", "part000", "legacy"}

NotExtracted == [done |-> FALSE, commits |-> <<>>]

\* none of the functions that are run on their own has been called
UnitsIdle ==
  /\ scan = <<>> /\ synthesis = <<>> /\ injection = <<>> /\ keyReplies = <<>>
  /\ navigation = <<>> /\ chunkSummary = <<>> /\ waiter = <<>> /\ fileHeader = <<>>
  /\ popup = <<>>

-----------------------------------------------------------------------------
(* The extraction on its own: a page is given, extractCommitMessages runs  *)

InitExtract ==
  /\ UnitsIdle
  /\ variant \in Variants
  /\ page \in Pages
  /\ extracted = NotExtracted
  /\ bgVariant = "basic"
  /\ provider = "local"
  /\ storedKey = ""
  /\ diff = [present |-> TRUE, files |-> <<>>]
  /\ buttons = <<>>
  /\ attached = <<>>
  /\ initTimer = FALSE
  /\ triggerTimers = 0
  /\ cycles = <<>>
  /\ tabMessages = 0
  /\ requests = <<>>
  /\ notification = [text |-> "", detail |-> ""]
  /\ form = [kind |-> "none", text |-> <<>>]
  /\ lastCall = [ran |-> FALSE, empty |-> FALSE, notified |-> FALSE, restored |-> FALSE,
              sent |-> FALSE]

RunExtract ==
  /\ ~extracted.done
  /\ extracted' = [done |-> TRUE, commits |-> extractCommitMessages(variant, page)]
  /\ UNCHANGED <<unitVars, variant, page, cycleVars, backgroundVars>>

NextExtract == RunExtract

SpecExtract == InitExtract /\ [][NextExtract]_vars

-----------------------------------------------------------------------------
(* Claims about extractCommitMessages, checked under SpecExtract           *)

HasPlaceholder == variant \in {"current", "part000"}

\* every cascade level yields nothing on the page
AllLevelsEmpty ==
  /\ WinningSelector(variant, page) = 0
  /\ LinkCandidates(variant, page) = <<>>
  /\ potentialCommits(page) = <<>>

\* C3: extractCommitMessages (the current version and part_000's) never returns an
\* empty sequence, and when the selector cascade, the commit-link fallback and the
\* page-text scan all yield nothing the result is exactly the two-element placeholder
C3_NeverEmpty ==
  (extracted.done /\ HasPlaceholder) =>
     /\ extracted.commits # <<>>
     /\ AllLevelsEmpty => extracted.commits = <<DefaultCommit1, DefaultCommit2>>

\* a page with elements on it, none of which yields a commit at any level
C3_Witness ==
  /\ extracted.done /\ HasPlaceholder
  /\ Elements(page) # <<>>
  /\ AllLevelsEmpty
  /\ extracted.commits = <<DefaultCommit1, DefaultCommit2>>

\* the boilerplate denylist of the claim
MatchesDenylist(text) ==
  \/ includes(text, W_filesChanged)
  \/ includes(text, W_contributor)
  \/ includes(text, W_commits)
  \/ includes(text, W_committed)
  \/ includes(text, W_ago)
  \/ IsAllDigits(text)

\* C5: no entry returned by extractCommitMessages (current version) matches the
\* boilerplate denylist, whichever cascade level produced it
C5_NoBoilerplate ==
  (extracted.done /\ variant = "current") =>
     \A i \in 1..Len(extracted.commits) : ~MatchesDenylist(extracted.commits[i])

\* C6 as amended: every entry returned by the current version is trimmed and longer
\* than 10 characters; an entry of the page-text scan is also shorter than 200
C6_TrimmedAndLong ==
  (extracted.done /\ variant = "current") =>
     \A i \in 1..Len(extracted.commits) :
        LET c == extracted.commits[i]
        IN  /\ trim(c) = c
            /\ Len(c) > MinCommitLength
            /\ CascadeResult(variant, page).level = "text" => Len(c) < MaxLineLength

\* the current version has returned an entry of more than 200 characters
C6_Witness ==
  /\ extracted.done /\ variant = "current"
  /\ \E i \in 1..Len(extracted.commits) : Len(extracted.commits[i]) > MaxLineLength

\* C6 as claimed: every entry is trimmed and between 10 and 200 characters long
C6_Original ==
  (extracted.done /\ variant = "current") =>
     \A i \in 1..Len(extracted.commits) :
        LET c == extracted.commits[i]
        IN  trim(c) = c /\ Len(c) >= MinCommitLength /\ Len(c) <= MaxLineLength

\* C7 as amended: in the current version and part_000's, no returned entry is
\* shorter than 10 characters
C7_NoShortEntry ==
  (extracted.done /\ HasPlaceholder) =>
     \A i \in 1..Len(extracted.commits) : Len(extracted.commits[i]) >= MinCommitLength

\* the page holds an element whose text is non-empty and shorter than 10 characters
C7_Witness ==
  /\ extracted.done /\ HasPlaceholder
  /\ \E i \in 1..Len(Elements(page)) :
        LET t == trim(Elements(page)[i].text)
        IN  Len(t) > 0 /\ Len(t) < MinCommitLength
  /\ CascadeResult(variant, page).level # "placeholder"

\* C7 as claimed: no returned entry is shorter than 10 characters, in any version
C7_Original ==
  extracted.done =>
     \A i \in 1..Len(extracted.commits) : Len(extracted.commits[i]) >= MinCommitLength

ResultLimit == IF variant = "legacy" THEN LegacyMaxCommits ELSE MaxCommits

\* C8: the result has at most 10 entries (20 in the legacy version) and is a prefix
\* of the winning level's candidates, in page order
C8_BoundedPrefix ==
  extracted.done =>
     LET candidates == CascadeResult(variant, page).candidates
     IN  /\ Len(extracted.commits) <= ResultLimit
         /\ Len(extracted.commits) <= Len(candidates)
         /\ \A i \in 1..Len(extracted.commits) : extracted.commits[i] = candidates[i]

\* the winning level had more candidates than the limit, and they were cut
C8_Witness ==
  /\ extracted.done
  /\ variant = "legacy"
  /\ Len(CascadeResult(variant, page).candidates) > LegacyMaxCommits
  /\ Len(extracted.commits) = LegacyMaxCommits

-----------------------------------------------------------------------------
(* The local description synthesizer of the background script.             *)
(* bv names the version of the background script:                          *)
(*   "detailed"  part_001 1-780   (commits, fileChanges, detailedAnalysis) *)
(*   "basic"     background.js    (commits only, with local fallback)      *)
(*   "oldest"    part_001 782-887 (commits only, no local fallback)        *)

\* the keywords looked for in commits and file names
Keywords ==
  [ add |->   \* 'add'
      <<"a","d","d">>,
    feature |->   \* 'feature'
      <<"f","e","a","t","u","r","e">>,
    fix |->   \* 'fix'
      <<"f","i","x">>,
    bug |->   \* 'bug'
      <<"b","u","g">>,
    update |->   \* 'update'
      <<"u","p","d","a","t","e">>,
    improve |->   \* 'improve'
      <<"i","m","p","r","o","v","e">>,
    create |->   \* 'create'
      <<"c","r","e","a","t","e">>,
    remove |->   \* 'remove'
      <<"r","e","m","o","v","e">>,
    delete |->   \* 'delete'
      <<"d","e","l","e","t","e">>,
    api |->   \* 'api'
      <<"a","p","i">>,
    service |->   \* 'service'
      <<"s","e","r","v","i","c","e">>,
    component |->   \* 'component'
      <<"c","o","m","p","o","n","e","n","t">>,
    hook |->   \* 'hook'
      <<"h","o","o","k">> ]

\* the canned titles
Titles ==
  [ addMany |->   \* 'Add new components and features'
      <<"A","d","d"," ","n","e","w"," ","c","o","m","p","o","n","e","n","t","s"," ","a","n","d"," ","f","e","a","t","u","r","e","s">>,
    addOne |->   \* 'Add new functionality'
      <<"A","d","d"," ","n","e","w"," ","f","u","n","c","t","i","o","n","a","l","i","t","y">>,
    updateFiles |->   \* 'Update and improve existing functionality'
      <<"U","p","d","a","t","e"," ","a","n","d"," ","i","m","p","r","o","v","e"," ","e","x","i","s","t","i","n","g"," ","f","u","n","c","t","i","o","n","a","l","i","t","y">>,
    removeFiles |->   \* 'Remove deprecated code and files'
      <<"R","e","m","o","v","e"," ","d","e","p","r","e","c","a","t","e","d"," ","c","o","d","e"," ","a","n","d"," ","f","i","l","e","s">>,
    refactor |->   \* 'Refactor and optimize codebase'
      <<"R","e","f","a","c","t","o","r"," ","a","n","d"," ","o","p","t","i","m","i","z","e"," ","c","o","d","e","b","a","s","e">>,
    features |->   \* 'Add new features and improvements'
      <<"A","d","d"," ","n","e","w"," ","f","e","a","t","u","r","e","s"," ","a","n","d"," ","i","m","p","r","o","v","e","m","e","n","t","s">>,
    fixes |->   \* 'Fix bugs and issues'
      <<"F","i","x"," ","b","u","g","s"," ","a","n","d"," ","i","s","s","u","e","s">>,
    updates |->   \* 'Update and improve functionality'
      <<"U","p","d","a","t","e"," ","a","n","d"," ","i","m","p","r","o","v","e"," ","f","u","n","c","t","i","o","n","a","l","i","t","y">>,
    multiple |->   \* 'Multiple improvements and changes'
      <<"M","u","l","t","i","p","l","e"," ","i","m","p","r","o","v","e","m","e","n","t","s"," ","a","n","d"," ","c","h","a","n","g","e","s">>,
    none |->   \* 'Code improvements'
      <<"C","o","d","e"," ","i","m","p","r","o","v","e","m","e","n","t","s">> ]

\* the fixed parts of the synthesized text
Layout ==
  [ keyFeatures |->   \* '\n\n## Key Features Added/Modified\n\n'
      <<"\n","\n","#","#"," ","K","e","y"," ","F","e","a","t","u","r","e","s"," ","A","d","d","e","d","/","M","o","d","i","f","i","e","d","\n","\n">>,
    signature |->   \* '\n\nHii Amruth'
      <<"\n","\n","H","i","i"," ","A","m","r","u","t","h">>,
    titlePrefix |->   \* 'Title: '
      <<"T","i","t","l","e",":"," ">>,
    description |->   \* '\n\nDescription:\n'
      <<"\n","\n","D","e","s","c","r","i","p","t","i","o","n",":","\n">>,
    changesMade |->   \* '## Changes Made\n\n'
      <<"#","#"," ","C","h","a","n","g","e","s"," ","M","a","d","e","\n","\n">>,
    summaryIntro |->   \* '\n\n## Summary\n\nThis pull request includes '
      <<"\n","\n","#","#"," ","S","u","m","m","a","r","y","\n","\n","T","h","i","s"," ","p","u","l","l"," ","r","e","q","u","e","s","t"," ","i","n","c","l","u","d","e","s"," ">>,
    summaryRest |->   \* ' with various improvements and changes to the codebase.\n\n## Review Notes\n\nPlease review the individual commits for detailed information about each change.\n\n---\n*This description was generated automatically by PR Script extension.*'
      <<" ","w","i","t","h"," ","v","a","r","i","o","u","s"," ","i","m","p","r","o","v","e","m","e","n","t","s"," ","a","n","d"," ","c","h","a","n","g","e","s"," ","t","o"," ","t","h","e"," ","c","o","d","e","b","a","s","e",".","\n","\n","#","#"," ","R","e","v","i","e","w"," ","N","o","t","e","s","\n","\n","P","l","e","a","s","e"," ","r","e","v","i","e","w"," ","t","h","e"," ","i","n","d","i","v","i","d","u","a","l"," ","c","o","m","m","i","t","s"," ","f","o","r"," ","d","e","t","a","i","l","e","d"," ","i","n","f","o","r","m","a","t","i","o","n"," ","a","b","o","u","t"," ","e","a","c","h"," ","c","h","a","n","g","e",".","\n","\n","-","-","-","\n","*","T","h","i","s"," ","d","e","s","c","r","i","p","t","i","o","n"," ","w","a","s"," ","g","e","n","e","r","a","t","e","d"," ","a","u","t","o","m","a","t","i","c","a","l","l","y"," ","b","y"," ","P","R"," ","S","c","r","i","p","t"," ","e","x","t","e","n","s","i","o","n",".","*">> ]

\* the openings of the sentences of generateBasicFeatureSummary
FeatureOpenings ==
  [ added |->   \* 'Added new functionality as described in commit: "'
      <<"A","d","d","e","d"," ","n","e","w"," ","f","u","n","c","t","i","o","n","a","l","i","t","y"," ","a","s"," ","d","e","s","c","r","i","b","e","d"," ","i","n"," ","c","o","m","m","i","t",":"," ","\"">>,
    fixed |->   \* 'Fixed issues as described in commit: "'
      <<"F","i","x","e","d"," ","i","s","s","u","e","s"," ","a","s"," ","d","e","s","c","r","i","b","e","d"," ","i","n"," ","c","o","m","m","i","t",":"," ","\"">>,
    updated |->   \* 'Updated and improved functionality as described in commit: "'
      <<"U","p","d","a","t","e","d"," ","a","n","d"," ","i","m","p","r","o","v","e","d"," ","f","u","n","c","t","i","o","n","a","l","i","t","y"," ","a","s"," ","d","e","s","c","r","i","b","e","d"," ","i","n"," ","c","o","m","m","i","t",":"," ","\"">>,
    removed |->   \* 'Removed/cleaned up code as described in commit: "'
      <<"R","e","m","o","v","e","d","/","c","l","e","a","n","e","d"," ","u","p"," ","c","o","d","e"," ","a","s"," ","d","e","s","c","r","i","b","e","d"," ","i","n"," ","c","o","m","m","i","t",":"," ","\"">>,
    other |->   \* 'Implemented changes as described in commit: "'
      <<"I","m","p","l","e","m","e","n","t","e","d"," ","c","h","a","n","g","e","s"," ","a","s"," ","d","e","s","c","r","i","b","e","d"," ","i","n"," ","c","o","m","m","i","t",":"," ","\"">> ]

\* the purposes generateDetailedFileAnalysis gives to files
Purposes ==
  [ api |->   \* 'API service file'
      <<"A","P","I"," ","s","e","r","v","i","c","e"," ","f","i","l","e">>,
    component |->   \* 'React component'
      <<"R","e","a","c","t"," ","c","o","m","p","o","n","e","n","t">>,
    hook |->   \* 'React hook'
      <<"R","e","a","c","t"," ","h","o","o","k">>,
    style |->   \* 'Styling file'
      <<"S","t","y","l","i","n","g"," ","f","i","l","e">>,
    script |->   \* 'JavaScript functionality'
      <<"J","a","v","a","S","c","r","i","p","t"," ","f","u","n","c","t","i","o","n","a","l","i","t","y">>,
    html |->   \* 'HTML structure'
      <<"H","T","M","L"," ","s","t","r","u","c","t","u","r","e">>,
    config |->   \* 'Configuration file'
      <<"C","o","n","f","i","g","u","r","a","t","i","o","n"," ","f","i","l","e">>,
    code |->   \* 'Code file'
      <<"C","o","d","e"," ","f","i","l","e">> ]

\* the phrases of generateDetailedFileAnalysis
AnalysisPhrases ==
  [ handling |->   \* ' handling '
      <<" ","h","a","n","d","l","i","n","g"," ">>,
    newFunctions |->   \* 'new functions ('
      <<"n","e","w"," ","f","u","n","c","t","i","o","n","s"," ","(">>,
    apiEndpoints |->   \* 'API endpoints ('
      <<"A","P","I"," ","e","n","d","p","o","i","n","t","s"," ","(">>,
    reactComponents |->   \* 'React components ('
      <<"R","e","a","c","t"," ","c","o","m","p","o","n","e","n","t","s"," ","(">>,
    codeImprovements |->   \* 'code improvements and functionality updates'
      <<"c","o","d","e"," ","i","m","p","r","o","v","e","m","e","n","t","s"," ","a","n","d"," ","f","u","n","c","t","i","o","n","a","l","i","t","y"," ","u","p","d","a","t","e","s">>,
    existingUpdates |->   \* 'existing functionality updates'
      <<"e","x","i","s","t","i","n","g"," ","f","u","n","c","t","i","o","n","a","l","i","t","y"," ","u","p","d","a","t","e","s">>,
    implementation |->   \* ' implementation'
      <<" ","i","m","p","l","e","m","e","n","t","a","t","i","o","n">>,
    removedContext |->   \* 'removed '
      <<"r","e","m","o","v","e","d"," ">>,
    lines |->   \* ' lines)'
      <<" ","l","i","n","e","s",")">> ]

\* Array.prototype.filter: the elements of q at the positions in I, in order
SubsequenceAt(q, I) ==
  LET at(k) == CHOOSE i \in I : Cardinality({j \in I : j <= i}) = k
  IN  [k \in 1..Cardinality(I) |-> q[at(k)]]

\* [...new Set(q)]: the first occurrence of each element, in order
Dedupe(q) == SubsequenceAt(q, {i \in 1..Len(q) : \A j \in 1..(i - 1) : q[j] # q[i]})

\* Array.prototype.join
Join(q, sep) ==
  Flatten([i \in 1..Len(q) |-> IF i = 1 THEN q[i] ELSE sep \o q[i]])

\* s.split(ch).pop(): the part of s after the last occurrence of the character ch
LastSegment(s, ch) ==
  LET at == {i \in 1..Len(s) : s[i] = ch}
  IN  IF at = {} THEN s
      ELSE Slice(s, (CHOOSE i \in at : \A j \in at : j <= i) + 1, Len(s))

Digit(d) ==
  CASE d = 0 -> "0" [] d = 1 -> "1" [] d = 2 -> "2" [] d = 3 -> "3" [] d = 4 -> "4"
    [] d = 5 -> "5" [] d = 6 -> "6" [] d = 7 -> "7" [] d = 8 -> "8" [] d = 9 -> "9"

\* the decimal text of a natural number, as template literals print it
RECURSIVE NumberText(_)
NumberText(n) == IF n < 10 THEN <<Digit(n)>> ELSE NumberText(n \div 10) \o <<Digit(n % 10)>>

NoFileChanges == [present |-> FALSE, files |-> <<>>]

\* commits.filter(commit => commit && commit.length > 5 && !...includes('view commit details'))
cleanCommits(commits) ==
  SubsequenceAt(commits,
    {i \in 1..Len(commits) :
       Len(commits[i]) > 5 /\ ~includes(toLowerCase(commits[i]), W_viewCommitDetails)})

\* cleanCommits.some(c => c.toLowerCase().includes(a) || c.toLowerCase().includes(b))
SomeIncludes(commits, a, b) ==
  \E i \in 1..Len(commits) :
     includes(toLowerCase(commits[i]), a) \/ includes(toLowerCase(commits[i]), b)

\* the title chosen from the commits, with the fix family tested before the add family
CommitTitle_FixFirst(commits) ==
  LET clean == cleanCommits(commits)
  IN  IF Len(clean) = 1 THEN clean[1]
      ELSE IF Len(clean) > 1
      THEN IF SomeIncludes(clean, Keywords.fix, Keywords.bug) THEN Titles.fixes
           ELSE IF SomeIncludes(clean, Keywords.add, Keywords.feature) THEN Titles.features
           ELSE IF SomeIncludes(clean, Keywords.update, Keywords.improve) THEN Titles.updates
           ELSE Titles.multiple
      ELSE Titles.none

\* the title chosen from the commits
CommitTitle(commits) ==
  LET clean == cleanCommits(commits)
  IN  IF Len(clean) = 1 THEN clean[1]
      ELSE IF Len(clean) > 1
      THEN IF SomeIncludes(clean, Keywords.add, Keywords.feature) THEN Titles.features
           ELSE IF SomeIncludes(clean, Keywords.fix, Keywords.bug) THEN Titles.fixes
           ELSE IF SomeIncludes(clean, Keywords.update, Keywords.improve) THEN Titles.updates
           ELSE Titles.multiple
      ELSE Titles.none

FilesWithStatus(files, status) ==
  SubsequenceAt(files, {i \in 1..Len(files) : files[i].status = status})

\* the title chosen from the statuses of the files, modified files tested first
FileStatusTitle_ModifiedFirst(files) ==
  IF Len(FilesWithStatus(files, "modified")) > 0 THEN Titles.updateFiles
  ELSE IF Len(FilesWithStatus(files, "added")) > 0 THEN Titles.addOne
  ELSE IF Len(FilesWithStatus(files, "deleted")) > 0 THEN Titles.removeFiles
  ELSE Titles.refactor

\* the title chosen from the statuses of the files
FileStatusTitle(files) ==
  LET addedFiles == FilesWithStatus(files, "added")
      fileTypes == {LastSegment(addedFiles[i].filename, ".") : i \in 1..Len(addedFiles)}
  IN  IF Len(addedFiles) > 0
      THEN (IF Len(addedFiles) > 1 THEN Titles.addMany ELSE Titles.addOne)
             \o (IF Cardinality(fileTypes) = 1
                 THEN <<" ", "(">> \o (CHOOSE t \in fileTypes : TRUE)
                        \o <<" ", "f", "i", "l", "e", "s", ")">>
                 ELSE <<>>)
      ELSE IF Len(FilesWithStatus(files, "modified")) > 0 THEN Titles.updateFiles
      ELSE IF Len(FilesWithStatus(files, "deleted")) > 0 THEN Titles.removeFiles
      ELSE Titles.refactor

\* detailedAnalysis && fileChanges && fileChanges.files.length > 0
UsesFileChanges(bv, fileChanges, detailedAnalysis) ==
  bv = "detailed" /\ detailedAnalysis /\ fileChanges.present /\ Len(fileChanges.files) > 0

\* the commits numbered by their index, from 0
NumberedCommits_FromZero(clean) ==
  Join([i \in 1..Len(clean) |-> NumberText(i - 1) \o <<".", " ">> \o clean[i]], <<"\n">>)

\* cleanCommits.map((commit, index) => `${index + 1}. ${commit}`).join('\n')
NumberedCommits(clean) ==
  Join([i \in 1..Len(clean) |-> NumberText(i) \o <<".", " ">> \o clean[i]], <<"\n">>)

\* generateBasicFeatureSummary: one sentence per commit, chosen by its keywords
FeatureSentence(commit) ==
  LET lowerCommit == toLowerCase(commit)
      opening ==
        IF includes(lowerCommit, Keywords.add) \/ includes(lowerCommit, Keywords.create) THEN FeatureOpenings.added
        ELSE IF includes(lowerCommit, Keywords.fix) \/ includes(lowerCommit, Keywords.bug) THEN FeatureOpenings.fixed
        ELSE IF includes(lowerCommit, Keywords.update) \/ includes(lowerCommit, Keywords.improve)
        THEN FeatureOpenings.updated
        ELSE IF includes(lowerCommit, Keywords.remove) \/ includes(lowerCommit, Keywords.delete)
        THEN FeatureOpenings.removed
        ELSE FeatureOpenings.other
  IN  opening \o commit \o <<"\"">>

generateBasicFeatureSummary(commits) ==
  Join([i \in 1..Len(commits) |-> FeatureSentence(commits[i])], <<"\n">>)

\* the purpose of a file, from its name and extension
FilePurpose(filename) ==
  LET fileName == LastSegment(filename, "/")
      lowerName == toLowerCase(fileName)
      fileExt == toLowerCase(LastSegment(fileName, "."))
  IN  IF includes(lowerName, Keywords.api) \/ includes(lowerName, Keywords.service) THEN Purposes.api
      ELSE IF includes(lowerName, Keywords.component) THEN Purposes.component
      ELSE IF includes(lowerName, Keywords.hook) THEN Purposes.hook
      ELSE IF fileExt \in {<<"c","s","s">>, <<"s","c","s","s">>} THEN Purposes.style
      ELSE IF fileExt \in {<<"j","s">>, <<"j","s","x">>} THEN Purposes.script
      ELSE IF fileExt = <<"h","t","m","l">> THEN Purposes.html
      ELSE IF fileExt = <<"j","s","o","n">> THEN Purposes.config
      ELSE Purposes.code

\* the info fields of the added lines of the given type, over all changes of a file
AddedInfo(changes, type) ==
  Flatten([c \in 1..Len(changes) |->
    LET added == changes[c].added
    IN  SubsequenceAt([a \in 1..Len(added) |-> added[a].info],
          {a \in 1..Len(added) : added[a].type = type /\ added[a].info # <<>>})])

\* the contexts collected over all changes: of the added lines, then of the removed ones
ChangeContexts(changes) ==
  Flatten([c \in 1..Len(changes) |->
    LET added == changes[c].added
        removed == changes[c].removed
    IN  SubsequenceAt([a \in 1..Len(added) |-> added[a].context],
          {a \in 1..Len(added) : added[a].context # <<>>})
        \o SubsequenceAt([r \in 1..Len(removed) |-> AnalysisPhrases.removedContext \o toLowerCase(removed[r].context)],
             {r \in 1..Len(removed) : removed[r].context # <<>>})])

\* the descriptions of a file that has code changes
ChangeDescriptions(changes) ==
  LET functionalities ==
        SubsequenceAt([c \in 1..Len(changes) |-> changes[c].summary],
          {c \in 1..Len(changes) : changes[c].summary # <<>>})
      uniqueContexts == Dedupe(ChangeContexts(changes))
      addedFunctions == AddedInfo(changes, "function")
      apiCalls == AddedInfo(changes, "apiIntegration")
      components == AddedInfo(changes, "component")
      listed(opening, q) ==
        IF Len(q) > 0 THEN <<opening \o Join(q, <<",", " ">>) \o <<")">>>> ELSE <<>>
  IN  functionalities
        \o [i \in 1..Len(uniqueContexts) |-> toLowerCase(uniqueContexts[i])]
        \o listed(AnalysisPhrases.newFunctions, addedFunctions)
        \o listed(AnalysisPhrases.apiEndpoints, apiCalls)
        \o listed(AnalysisPhrases.reactComponents, components)

\* the text of a file status, as template literals print it
StatusText(status) ==
  CASE status = "added" -> <<"a","d","d","e","d">>
    [] status = "modified" -> <<"m","o","d","i","f","i","e","d">>
    [] status = "deleted" -> <<"d","e","l","e","t","e","d">>
    [] status = "renamed" -> <<"r","e","n","a","m","e","d">>

\* generateDetailedFileAnalysis, one file
FileAnalysis(file) ==
  LET purpose == FilePurpose(file.filename)
      descriptions == ChangeDescriptions(file.changes)
  IN  <<"*", "*">> \o file.filename \o <<"*", "*">>
        \o (IF file.status # "modified"
            THEN <<" ", "(">> \o StatusText(file.status) \o <<")">> ELSE <<>>)
        \o <<":", "\n", "-", " ">> \o purpose \o AnalysisPhrases.handling
        \o (IF Len(file.changes) > 0
            THEN IF Len(descriptions) > 0 THEN Join(Dedupe(descriptions), <<",", " ">>)
                 ELSE AnalysisPhrases.codeImprovements
            ELSE IF file.status = "added"
                 THEN <<"n","e","w"," ">> \o toLowerCase(purpose) \o AnalysisPhrases.implementation
                 ELSE AnalysisPhrases.existingUpdates)
        \o (IF file.additions > 0 \/ file.deletions > 0
            THEN <<" ", "(", "+">> \o NumberText(file.additions) \o <<" ", "-">>
                   \o NumberText(file.deletions) \o AnalysisPhrases.lines
            ELSE <<>>)

generateDetailedFileAnalysis(files) ==
  Join([i \in 1..Len(files) |-> FileAnalysis(files[i])], <<"\n">>)

\* generateLocalPRDescription, as the version bv of the background script defines it
generateLocalPRDescription(bv, commits, fileChanges, detailedAnalysis) ==
  LET clean == cleanCommits(commits)
      byFiles == UsesFileChanges(bv, fileChanges, detailedAnalysis)
      title == IF byFiles THEN FileStatusTitle(fileChanges.files) ELSE CommitTitle(commits)
      description ==
        IF bv = "detailed"
        THEN NumberedCommits(clean) \o Layout.keyFeatures
               \o (IF byFiles THEN generateDetailedFileAnalysis(fileChanges.files)
                   ELSE generateBasicFeatureSummary(clean))
               \o Layout.signature
        ELSE Layout.changesMade \o NumberedCommits(clean) \o Layout.summaryIntro
               \o NumberText(Len(clean)) \o <<" ","c","o","m","m","i","t">>
               \o (IF Len(clean) # 1 THEN <<"s">> ELSE <<>>) \o Layout.summaryRest
  IN  Layout.titlePrefix \o title \o Layout.description \o description

-----------------------------------------------------------------------------
(* The generation cycle of the content script.  The background script is   *)
(* the environment here: for every request it sends one message to the tab *)
(* and one response, which arrive in any order.                            *)
(* Labels and notices are written without the emoji that precedes them in  *)
(* the source.                                                             *)

OriginalLabel == "Generate PR Description"

\* the label shown while the request is with the background script
WaitingLabel(v) ==
  IF v = "current" THEN "Generating detailed description..." ELSE "Generating description..."

\* a notification: its fixed text and, for an error passed on, the error's message
Notice(text, detail) == [text |-> text, detail |-> detail]
NoNotice == Notice("", "")
NoCommitsNotice ==
  Notice("No commit messages found. Make sure you're on a GitHub PR page with commits.", "")
InsertedNotice == Notice("PR description generated successfully!", "")
InsertFailedNotice == Notice("Error inserting description into form", "")
NoForm == [kind |-> "none", text |-> <<>>]
NoCall == [ran |-> FALSE, empty |-> FALSE, notified |-> FALSE, restored |-> FALSE,
              sent |-> FALSE]

\* the bound on the cycles that wait for the background at one time
MaxInFlight == 2

\* document.getElementById('pr-script-generate-btn'): the first element of the document
\* with that id (its index in buttons), 0 for null
ButtonById == IF attached = <<>> THEN 0 ELSE Head(attached)

\* createGenerateButton without the removal of the existing button
createGenerateButton_NoRemove ==
  /\ buttons' = Append(buttons, [label |-> OriginalLabel, disabled |-> FALSE])
  /\ attached' = Append(attached, Len(buttons) + 1)

\* createGenerateButton: the existing button is removed, a new one is appended
createGenerateButton ==
  /\ buttons' = Append(buttons, [label |-> OriginalLabel, disabled |-> FALSE])
  /\ attached' = Append(IF ButtonById # 0 THEN Tail(attached) ELSE attached,
                        Len(buttons) + 1)

\* every cascade level of extractCommitMessages yields nothing on page pg
CascadeEmpty(v, pg) ==
  /\ WinningSelector(v, pg) = 0
  /\ IF v = "legacy" THEN LegacyCandidates(pg) = <<>>
     ELSE LinkCandidates(v, pg) = <<>> /\ potentialCommits(pg) = <<>>

\* the fileChanges field of the request: only the current version sends one
RequestFileChanges(v, d) == IF v = "current" THEN d ELSE NoFileChanges

\* the generateDescription request of version v on a page
GenerateDescriptionRequest(v, pg, d) ==
  [commits |-> extractCommitMessages(v, pg),
   fileChanges |-> RequestFileChanges(v, d),
   detailedAnalysis |-> (v = "current")]

\* commits.length === 0: generatePRDescription gives up
AbortsGeneration(commits) == Len(commits) = 0

\* generatePRDescription of the content script, run on the button in the document;
\* bs and at are the buttons and the attached button at the time of the call
ContentGeneratePRDescription(bs, at) ==
  LET Run(originalText, request, empty) ==
        IF AbortsGeneration(request.commits)
        THEN /\ notification' = NoCommitsNotice
             /\ buttons' = [bs EXCEPT ![at] = [label |-> originalText, disabled |-> FALSE]]
             /\ cycles' = cycles
             /\ tabMessages' = tabMessages
             /\ lastCall' = [ran |-> TRUE, empty |-> empty,
                             notified |-> TRUE, restored |-> TRUE, sent |-> FALSE]
        ELSE /\ notification' = notification
             /\ buttons' = [bs EXCEPT ![at] =
                              [label |-> WaitingLabel(variant), disabled |-> TRUE]]
             /\ cycles' = Append(cycles,
                  [button |-> at, originalText |-> originalText, request |-> request])
             /\ tabMessages' = tabMessages + 1
             /\ lastCall' = [ran |-> TRUE, empty |-> empty,
                             notified |-> FALSE, restored |-> FALSE, sent |-> TRUE]
  IN  Run(bs[at].label, GenerateDescriptionRequest(variant, page, diff),
          CascadeEmpty(variant, page))

\* initialize's timer fires: the button is created
InitializeTimer ==
  /\ initTimer
  /\ initTimer' = FALSE
  /\ createGenerateButton
  /\ UNCHANGED <<unitVars, variant, page, extracted, backgroundVars, diff, triggerTimers, cycles,
                 tabMessages, notification, form, lastCall>>

\* the user clicks the button; a disabled button fires no click event
ClickButton ==
  /\ ButtonById # 0
  /\ ~buttons[ButtonById].disabled
  /\ Len(cycles) + triggerTimers < MaxInFlight
  /\ tabMessages + triggerTimers < MaxInFlight
  /\ ContentGeneratePRDescription(buttons, ButtonById)
  /\ UNCHANGED <<unitVars, variant, page, extracted, backgroundVars, diff, attached, initTimer,
                 triggerTimers, form>>

\* the popup's triggerGeneration message arrives.  The legacy handler calls
\* generatePRDescription at once, which throws when there is no button (the case is
\* left out: nothing changes); the later versions create a missing button and call
\* generatePRDescription from a timer.
TriggerGeneration ==
  /\ Len(cycles) + triggerTimers < MaxInFlight
  /\ tabMessages + triggerTimers < MaxInFlight
  /\ IF ButtonById # 0
     THEN /\ ContentGeneratePRDescription(buttons, ButtonById)
          /\ UNCHANGED <<attached, triggerTimers>>
     ELSE /\ variant # "legacy"
          /\ createGenerateButton
          /\ triggerTimers' = triggerTimers + 1
          /\ UNCHANGED <<cycles, tabMessages, notification, lastCall>>
  /\ UNCHANGED <<unitVars, variant, page, extracted, backgroundVars, diff, initTimer, form>>

\* the timer set by triggerGeneration fires; without a button in the document
\* generatePRDescription throws on button.innerHTML and nothing else happens
TriggerTimer ==
  /\ triggerTimers > 0
  /\ triggerTimers' = triggerTimers - 1
  /\ IF ButtonById # 0
     THEN ContentGeneratePRDescription(buttons, ButtonById)
     ELSE UNCHANGED <<buttons, cycles, tabMessages, notification, lastCall>>
  /\ UNCHANGED <<unitVars, variant, page, extracted, backgroundVars, diff, attached, initTimer, form>>

\* the content of a well-formed answer of the provider
RemoteText ==
  <<"T","i","t","l","e",":"," ","I","m","p","r","o","v","e"," ","l","o","g","i","n","\n","\n","D","e","s","c","r","i","p","t","i","o","n",":","\n","R","e","w","o","r","k","s"," ","t","h","e"," ","l","o","g","i","n"," ","f","l","o","w">>

\* the messages the background script can send for a request
TabMessages ==
  { [action |-> "insertDescription", kind |-> "text", description |-> RemoteText, error |-> ""],
    [action |-> "insertDescription", kind |-> "undefined", description |-> <<>>, error |-> ""],
    [action |-> "showError", kind |-> "none", description |-> <<>>,
     error |-> "API Error: Unknown error"] }

\* the cycles without cycle i
RemoveAt(q, i) == [k \in 1..(Len(q) - 1) |-> IF k < i THEN q[k] ELSE q[k + 1]]

\* the onMessage handler on a message of the background script: insertDescription or
\* showNotification runs.  insertDescription throws on a description that is not a
\* string and catches it.
OnMessage(message) ==
  IF message.action = "insertDescription"
  THEN IF message.kind = "text"
       THEN /\ form' = [kind |-> "text", text |-> message.description]
            /\ notification' = InsertedNotice
       ELSE /\ form' = form
            /\ notification' = InsertFailedNotice
  ELSE /\ form' = form
       /\ notification' = Notice("", message.error)

\* a message of the background script arrives at the tab
ContentReceiveMessage ==
  /\ tabMessages > 0
  /\ tabMessages' = tabMessages - 1
  /\ \E message \in TabMessages : OnMessage(message)
  /\ UNCHANGED <<unitVars, variant, page, extracted, backgroundVars, diff, buttons, attached,
                 initTimer, triggerTimers, cycles, lastCall>>

\* the button as the callback of sendMessage leaves it
RestoredButton(button, originalText) == [label |-> originalText, disabled |-> FALSE]

\* the response of cycle i arrives: the callback of sendMessage restores the button
\* the cycle was started on and shows the error of a failed request
ContentReceiveResponse(i) ==
  /\ \E response \in {[success |-> TRUE, error |-> ""],
                      [success |-> FALSE, error |-> "API Error: Unknown error"]} :
       LET c == cycles[i]
       IN  /\ buttons' = [buttons EXCEPT ![c.button] = RestoredButton(@, c.originalText)]
           /\ notification' = IF response.success THEN notification
                              ELSE Notice("Error: ", response.error)
           /\ cycles' = RemoveAt(cycles, i)
  /\ UNCHANGED <<unitVars, variant, page, extracted, backgroundVars, diff, attached, initTimer,
                 triggerTimers, tabMessages, form, lastCall>>

F_apiUsers == <<"a","p","i","/","u","s","e","r","s",".","j","s">>   \* 'api/users.js'
F_buttonCss == <<"s","r","c","/","B","u","t","t","o","n",".","c","s","s">>   \* 'src/Button.css'
S_addedFunction == <<"A","d","d","e","d"," ","1"," ","f","u","n","c","t","i","o","n">>   \* 'Added 1 function'
I_onClick == <<"o","n","C","l","i","c","k">>   \* 'onClick'
X_events == <<"E","v","e","n","t"," ","H","a","n","d","l","i","n","g">>   \* 'Event Handling'

AddedFile ==
  [filename |-> F_apiUsers, status |-> "added", additions |-> 10, deletions |-> 0,
   changes |-> <<>>]

ModifiedFile ==
  [filename |-> F_buttonCss, status |-> "modified", additions |-> 3, deletions |-> 12,
   changes |-> <<[summary |-> S_addedFunction,
                  added |-> <<[type |-> "function", info |-> I_onClick, context |-> X_events]>>,
                  removed |-> <<[context |-> X_events]>>]>>]

\* the pages the extension is run on: what the commit extraction reads and what the
\* file extraction reports on them
MainPages ==
  { [page |-> <<>>, diff |-> [present |-> TRUE, files |-> <<>>]],
    [page |-> <<Node("commit-message", T_ok, <<>>)>>,
     diff |-> [present |-> TRUE, files |-> <<AddedFile>>]],
    [page |-> <<Node("message-anchor", T_short, <<>>), Node("commit-title", T_details, <<>>)>>,
     diff |-> [present |-> TRUE, files |-> <<ModifiedFile>>]] }

Init ==
  /\ UnitsIdle
  /\ variant \in Variants
  /\ \E p \in MainPages : page = p.page /\ diff = p.diff
  /\ extracted = NotExtracted
  /\ bgVariant = "basic"
  /\ provider = "local"
  /\ storedKey = ""
  /\ requests = <<>>
  /\ buttons = <<>>
  /\ attached = <<>>
  /\ initTimer = TRUE
  /\ triggerTimers = 0
  /\ cycles = <<>>
  /\ tabMessages = 0
  /\ notification = NoNotice
  /\ form = NoForm
  /\ lastCall = NoCall

Next ==
  \/ InitializeTimer
  \/ ClickButton
  \/ TriggerGeneration
  \/ TriggerTimer
  \/ ContentReceiveMessage
  \/ \E i \in 1..Len(cycles) : ContentReceiveResponse(i)

Spec == Init /\ [][Next]_vars

-----------------------------------------------------------------------------
(* Claims about the generation cycle, checked under Spec                   *)

\* C4: when every level of the extraction cascade yields nothing, generatePRDescription
\* shows the 'No commit messages found' notice, restores the button and sends no
\* generateDescription request
C4_AbortsOnEmptyCascade ==
  (lastCall.ran /\ lastCall.empty /\ variant \in {"current", "legacy"}) =>
     /\ lastCall.notified
     /\ lastCall.restored
     /\ ~lastCall.sent

\* no cycle waits for its response and no timer will start one
Quiescent == cycles = <<>> /\ triggerTimers = 0

\* C9: once every outstanding response has arrived, the generate button is enabled and
\* its label is the original one, whatever clicks and triggerGeneration messages
\* started the cycles
C9_ButtonRestored ==
  (Quiescent /\ ButtonById # 0 /\ variant = "current") =>
     /\ ~buttons[ButtonById].disabled
     /\ buttons[ButtonById].label = OriginalLabel

-----------------------------------------------------------------------------
(* The background script: credential, dispatcher, message handler.  The    *)
(* content script and the provider are the environment here.               *)

BgVariants == {"detailed", "basic", "oldest"}
Providers == {"openrouter", "huggingface", "local"}

\* PROVIDERS[p].apiKey ("" for null); the oldest version has DEFAULT_API_KEY only
DefaultKey(bv, p) ==
  IF bv = "oldest" THEN "sk-or-v1-a52b"
  ELSE CASE p = "openrouter" -> "sk-or-v1-00b3"
         [] p = "huggingface" -> "hf_demo"
         [] p = "local" -> ""

NoCredential == [ok |-> TRUE, key |-> ""]

\* getApiKey preferring the default key of the provider to the stored one
getApiKey_DefaultFirst(bv, p, stored, storageOk) ==
  IF storageOk
  THEN [ok |-> TRUE, key |-> IF DefaultKey(bv, p) # "" THEN DefaultKey(bv, p) ELSE stored]
  ELSE IF bv = "oldest" THEN [ok |-> FALSE, key |-> ""]
  ELSE [ok |-> TRUE, key |-> DefaultKey(bv, p)]

\* getApiKey: the stored key, else the default one; storageOk tells whether the read
\* of chrome.storage succeeded.  The result is [ok, key]; only the oldest version
\* lets the failure of the read escape.
getApiKey(bv, p, stored, storageOk) ==
  IF storageOk THEN [ok |-> TRUE, key |-> IF stored # "" THEN stored ELSE DefaultKey(bv, p)]
  ELSE IF bv = "oldest" THEN [ok |-> FALSE, key |-> ""]
  ELSE [ok |-> TRUE, key |-> DefaultKey(bv, p)]

\* a plausible slip: the request is made whatever the provider and the key
DispatchPlan_AlwaysFetch(bv, p, credential) == "fetch"

\* what generatePRDescription does before any request is made:
\* "local" (synthesize locally), "throw" (reject) or "fetch" (ask the provider)
DispatchPlan(bv, p, credential) ==
  IF bv = "oldest"
  THEN IF ~credential.ok \/ credential.key = "" THEN "throw" ELSE "fetch"
  ELSE IF p = "local" THEN "local"
       ELSE IF credential.key = "" THEN "local"
       ELSE "fetch"

\* the ways a request to the provider can end: fetch throws, the status is not 2xx,
\* the body is not JSON, the body has no choices[0].message, the message has no
\* content, or all is well
FetchOutcomes == {"network-error", "http-error", "bad-json", "no-choices", "no-content", "ok"}

\* the outcomes in which the request failed or choices[0].message.content cannot be read
FailureOutcomes == {"network-error", "http-error", "bad-json", "no-choices"}

NoResult == [state |-> "pending", kind |-> "none", text |-> <<>>, error |-> ""]
Resolved(text) == [state |-> "resolved", kind |-> "text", text |-> text, error |-> ""]
ResolvedUndefined == [state |-> "resolved", kind |-> "undefined", text |-> <<>>, error |-> ""]
Rejected(error) == [state |-> "rejected", kind |-> "none", text |-> <<>>, error |-> error]

\* a plausible slip: a response that is not ok is thrown instead of falling back
FetchResult_Propagates(bv, outcome, localText) ==
  CASE outcome = "ok" -> Resolved(RemoteText)
    [] outcome = "no-content" -> ResolvedUndefined
    [] outcome = "http-error" -> Rejected("API Error: Unknown error")
    [] OTHER -> Resolved(localText)

\* how generatePRDescription settles once the request has ended
FetchResult(bv, outcome, localText) ==
  CASE outcome = "ok" -> Resolved(RemoteText)
    [] outcome = "no-content" -> ResolvedUndefined
    [] outcome = "network-error" ->
         IF bv = "oldest" THEN Rejected("Failed to fetch") ELSE Resolved(localText)
    [] outcome = "http-error" ->
         IF bv = "oldest" THEN Rejected("API Error: Unknown error") ELSE Resolved(localText)
    [] outcome = "bad-json" ->
         IF bv = "oldest" THEN Rejected("Unexpected token") ELSE Resolved(localText)
    [] outcome = "no-choices" ->
         IF bv = "oldest" THEN Rejected("Cannot read properties of undefined")
         ELSE Resolved(localText)

InsertDescriptionMessage(result) ==
  [action |-> "insertDescription", kind |-> result.kind, description |-> result.text,
   error |-> ""]
ShowErrorMessage(result) ==
  [action |-> "showError", kind |-> "none", description |-> <<>>, error |-> result.error]

\* a plausible slip: the error message is sent whatever the outcome
OutcomeMessages_Both(result) ==
  IF result.state = "resolved"
  THEN <<InsertDescriptionMessage(result), ShowErrorMessage(result)>>
  ELSE <<ShowErrorMessage(result)>>

\* the messages the handler sends to the tab once generatePRDescription has settled
OutcomeMessages(result) ==
  IF result.state = "resolved" THEN <<InsertDescriptionMessage(result)>>
  ELSE <<ShowErrorMessage(result)>>

\* the responses the handler returns once generatePRDescription has settled
OutcomeResponses(result) ==
  IF result.state = "resolved" THEN <<[success |-> TRUE, error |-> ""]>>
  ELSE <<[success |-> FALSE, error |-> result.error]>>

\* the local text for a request, with the arguments the version bv passes on
LocalText(bv, request) ==
  generateLocalPRDescription(bv, request.commits, request.fileChanges,
                             request.detailedAnalysis)

\* the request r with generatePRDescription settled and the handler's callbacks run
Settled(r, result) ==
  [r EXCEPT !.stage = "settled", !.result = result,
            !.messages = OutcomeMessages(result), !.responses = OutcomeResponses(result)]

\* the requests the content script can send: what each version extracts on each page
RequestInputs ==
  {r \in {GenerateDescriptionRequest(v, p.page, p.diff) : v \in Variants, p \in MainPages} :
     ~AbortsGeneration(r.commits)}

\* the bound on the requests the background script handles at one time
MaxRequests == 1

\* a generateDescription request arrives: the handler calls generatePRDescription,
\* which runs up to its request to the provider
ReceiveGenerateDescription ==
  /\ Len(requests) < MaxRequests
  /\ \E request \in RequestInputs, storageOk \in BOOLEAN :
       LET readsKey == bgVariant = "oldest" \/ provider # "local"
           credential == IF readsKey
                         THEN getApiKey(bgVariant, provider, storedKey, storageOk)
                         ELSE NoCredential
           plan == DispatchPlan(bgVariant, provider, credential)
           r == [request |-> request, stage |-> "received", apiKey |-> credential.key,
                 fetches |-> 0, outcome |-> "none", result |-> NoResult,
                 messages |-> <<>>, responses |-> <<>>]
       IN  /\ (~readsKey => storageOk)
           /\ requests' = Append(requests,
                CASE plan = "local" -> Settled(r, Resolved(LocalText(bgVariant, request)))
                  [] plan = "throw" ->
                       Settled(r, Rejected(IF credential.ok THEN "API key not configured"
                                           ELSE "storage unavailable"))
                  [] plan = "fetch" -> [r EXCEPT !.stage = "fetching", !.fetches = 1])
  /\ UNCHANGED <<unitVars, variant, page, extracted, cycleVars, bgVariant, provider, storedKey>>

\* the request to the provider ends; generatePRDescription settles and the handler
\* sends its message and its response
FetchCompletes(i) ==
  /\ requests[i].stage = "fetching"
  /\ \E outcome \in FetchOutcomes :
       requests' = [requests EXCEPT ![i] =
         Settled([requests[i] EXCEPT !.outcome = outcome],
                 FetchResult(bgVariant, outcome, LocalText(bgVariant, requests[i].request)))]
  /\ UNCHANGED <<unitVars, variant, page, extracted, cycleVars, bgVariant, provider, storedKey>>

\* the message and the response of a settled request have left for the tab
ReplyDelivered(i) ==
  /\ requests[i].stage = "settled"
  /\ requests' = RemoveAt(requests, i)
  /\ UNCHANGED <<unitVars, variant, page, extracted, cycleVars, bgVariant, provider, storedKey>>

UserKeys == {"sk-user", "sk-other"}

\* the popup's setApiKey message: the key is stored
SetApiKey ==
  /\ \E key \in UserKeys : key # storedKey /\ storedKey' = key
  /\ UNCHANGED <<unitVars, variant, page, extracted, cycleVars, bgVariant, provider, requests>>

InitBackground ==
  /\ UnitsIdle
  /\ bgVariant \in BgVariants
  /\ provider \in Providers
  /\ storedKey \in {""} \cup UserKeys
  /\ requests = <<>>
  /\ variant = "current"
  /\ page = <<>>
  /\ diff = [present |-> TRUE, files |-> <<>>]
  /\ extracted = NotExtracted
  /\ buttons = <<>>
  /\ attached = <<>>
  /\ initTimer = FALSE
  /\ triggerTimers = 0
  /\ cycles = <<>>
  /\ tabMessages = 0
  /\ notification = NoNotice
  /\ form = NoForm
  /\ lastCall = NoCall

NextBackground ==
  \/ ReceiveGenerateDescription
  \/ \E i \in 1..Len(requests) : FetchCompletes(i)
  \/ \E i \in 1..Len(requests) : ReplyDelivered(i)
  \/ SetApiKey

SpecBackground == InitBackground /\ [][NextBackground]_vars

-----------------------------------------------------------------------------
(* Claims about the background script, checked under SpecBackground        *)

HasLocalFallback == bgVariant \in {"detailed", "basic"}

\* C1: in the versions with a local fallback, whenever the request to the provider
\* fails (fetch throws, the status is not 2xx, or the body is such that
\* choices[0].message.content cannot be read), generatePRDescription resolves with
\* exactly the text generateLocalPRDescription returns for the same inputs
C1_FallbackOnFailure ==
  \A i \in 1..Len(requests) :
     (HasLocalFallback /\ requests[i].outcome \in FailureOutcomes) =>
        /\ requests[i].result.state = "resolved"
        /\ requests[i].result.kind = "text"
        /\ requests[i].result.text = LocalText(bgVariant, requests[i].request)
        /\ requests[i].result.text # RemoteText

\* a request with file changes got a response that is not ok, and has settled
C1_Witness ==
  \E i \in 1..Len(requests) :
     /\ bgVariant = "detailed"
     /\ requests[i].outcome = "http-error"
     /\ requests[i].request.detailedAnalysis
     /\ Len(requests[i].request.fileChanges.files) > 0
     /\ requests[i].result.state = "resolved"

\* C2: in the versions with a local fallback, when the provider is the local one or no
\* credential resolves, generatePRDescription returns the local synthesizer's text and
\* no request to a provider is made
C2_LocalWithoutRequest ==
  \A i \in 1..Len(requests) :
     (HasLocalFallback /\ (provider = "local" \/ requests[i].apiKey = "")) =>
        /\ requests[i].fetches = 0
        /\ requests[i].outcome = "none"
        /\ requests[i].result = Resolved(LocalText(bgVariant, requests[i].request))

\* a request was handled with the local provider
C2_Witness ==
  \E i \in 1..Len(requests) :
     /\ HasLocalFallback
     /\ provider = "local"
     /\ requests[i].stage = "settled"
     /\ requests[i].fetches = 0

\* C10: for each generateDescription request the handler sends exactly one message to
\* the tab and returns exactly one response, insertDescription with success or
\* showError with failure, and only once generatePRDescription has settled; the
\* description sent is the dispatcher's result, for commits that were extracted
C10_OneOutcome ==
  \A i \in 1..Len(requests) :
     LET r == requests[i]
     IN  /\ r.request \in RequestInputs
         /\ r.stage # "settled" => (r.messages = <<>> /\ r.responses = <<>>)
         /\ r.stage = "settled" =>
              /\ Len(r.messages) = 1
              /\ Len(r.responses) = 1
              /\ \/ /\ r.result.state = "resolved"
                    /\ r.messages[1].action = "insertDescription"
                    /\ r.messages[1].kind = r.result.kind
                    /\ r.messages[1].description = r.result.text
                    /\ r.responses[1].success
                 \/ /\ r.result.state = "rejected"
                    /\ r.messages[1].action = "showError"
                    /\ ~r.responses[1].success

\* the provider answered and the handler has sent the description
C10_Witness ==
  \E i \in 1..Len(requests) :
     /\ bgVariant = "detailed"
     /\ requests[i].outcome = "ok"
     /\ requests[i].stage = "settled"
     /\ requests[i].messages[1].action = "insertDescription"
     /\ requests[i].messages[1].description = RemoteText

-----------------------------------------------------------------------------
(* extractCodeChanges of the content script: the cleaning and the          *)
(* classification of the diff lines of one file, and their packaging into  *)
(* hunk records.  A diff line is [cls, text]: the class of its element and *)
(* its textContent.                                                        *)

MaxChanges == 15       \* changes.slice(0, 15)
SimpleLimit == 10          \* slice(0, 10) of extractSimpleCodeChanges
MinSimpleLength == 10      \* content.length > 10
MinCleanLength == 3        \* cleanText.length < 3
MinContextLength == 5      \* cleanText.length > 5

\* lineText.replace(/^\s*[\+\-\s]*\d+\s*/, '').trim()
CleanDiffText(lineText) ==
  LET marks == RunLength(lineText, 1, Whitespace \cup {"+", "-"})
      digits == RunLength(lineText, marks + 1, DigitChars)
      spaces == RunLength(lineText, marks + digits + 1, Whitespace)
  IN  trim(IF digits > 0 THEN Slice(lineText, marks + digits + spaces + 1, Len(lineText))
           ELSE lineText)

\* the result of String.prototype.match: the groups 1 and 2 and the whole match
\* (<<>> for a group that did not take part)
NoMatch == [found |-> FALSE, g1 |-> <<>>, g2 |-> <<>>, whole |-> <<>>]

\* an alternation a|b|... at one position: the first alternative that matches
FirstFound(alternatives) ==
  LET First(hits) ==
        IF hits = {} THEN NoMatch
        ELSE alternatives[CHOOSE k \in hits : \A j \in hits : k <= j]
  IN  First({k \in 1..Len(alternatives) : alternatives[k].found})

\* the names of codePatterns, in the order Object.entries lists them
codePatterns ==
  << "function", "import", "export", "component", "api", "state", "props", "method",
     "stateManagement", "hooks", "routing", "styling", "database", "auth", "validation",
     "testing", "config", "apiIntegration", "eventHandling", "dataFetching",
     "formHandling" >>

\* what the pattern named type matches in s beginning at position i
PatternAt(type, s, i) ==
  LET W(j) == RunLength(s, j, WordChars)
      S(j) == RunLength(s, j, Whitespace)
      Lit(p, j) == Slice(s, j, j + Len(p) - 1) = p
      LitFold(p, j) == toLowerCase(Slice(s, j, j + Len(p) - 1)) = toLowerCase(p)
      Is(j, cs) == j <= Len(s) /\ s[j] \in cs
      Until(j, cs) ==
        LET stops == {k \in j..Len(s) : s[k] \in cs}
        IN  IF stops = {} THEN Len(s) - j + 1
            ELSE (CHOOSE k \in stops : \A m \in stops : k <= m) - j
      \* ' and " and the backquote, which is written "backtick" here
      Quotes == {"'", "\"", "backtick"}
      Found(last, g1, g2) ==
        [found |-> TRUE, g1 |-> g1, g2 |-> g2, whole |-> Slice(s, i, last)]
      \* literal alternatives p1|p2|...
      Literals(ps) == FirstFound([k \in 1..Len(ps) |->
                        IF Lit(ps[k], i) THEN Found(i + Len(ps[k]) - 1, <<>>, <<>>)
                        ELSE NoMatch])
      LiteralsFold(ps) == FirstFound([k \in 1..Len(ps) |->
                        IF LitFold(ps[k], i) THEN Found(i + Len(ps[k]) - 1, <<>>, <<>>)
                        ELSE NoMatch])
      \* keyword\s+(\w+), the word reported as group 1 or group 2
      KeywordName(kw, group) ==
        LET a == i + Len(kw)
            b == a + S(a)
        IN  IF Lit(kw, i) /\ S(a) > 0 /\ W(b) > 0
            THEN IF group = 1 THEN Found(b + W(b) - 1, Slice(s, b, b + W(b) - 1), <<>>)
                 ELSE Found(b + W(b) - 1, <<>>, Slice(s, b, b + W(b) - 1))
            ELSE NoMatch
      \* literal(\w+), the word reported as group 1 or group 2
      PrefixName(p, group) ==
        LET b == i + Len(p)
        IN  IF Lit(p, i) /\ W(b) > 0
            THEN IF group = 1 THEN Found(b + W(b) - 1, Slice(s, b, b + W(b) - 1), <<>>)
                 ELSE Found(b + W(b) - 1, <<>>, Slice(s, b, b + W(b) - 1))
            ELSE NoMatch
      \* (\w+)\s*[:=]\s*(?:function|\(): the name is group 3
      Assigned ==
        LET a == i + W(i)
            b == a + S(a)
            c == b + 1 + S(b + 1)
        IN  IF W(i) > 0 /\ Is(b, {":", "="})
            THEN IF Lit(<<"f","u","n","c","t","i","o","n">>, c) THEN Found(c + 7, <<>>, <<>>)
                 ELSE IF Lit(<<"(">>, c) THEN Found(c, <<>>, <<>>)
                 ELSE NoMatch
            ELSE NoMatch
      \* import\s+.*?from\s+['"]([^'"]+)['"]
      Import ==
        LET FromAt(j) ==
              LET q == j + 4 + S(j + 4)
                  n == Until(q + 1, {"'", "\""})
              IN  IF Lit(<<"f","r","o","m">>, j) /\ S(j + 4) > 0 /\ Is(q, {"'", "\""}) /\ n > 0
                     /\ Is(q + 1 + n, {"'", "\""})
                  THEN Found(q + 1 + n, Slice(s, q + 1, q + n), <<>>)
                  ELSE NoMatch
            Lazy(hits) ==
              IF hits = {} THEN NoMatch ELSE FromAt(CHOOSE j \in hits : \A m \in hits : j <= m)
        IN  IF Lit(<<"i","m","p","o","r","t">>, i) /\ Is(i + 6, Whitespace)
            THEN Lazy({j \in (i + 7)..Len(s) : FromAt(j).found})
            ELSE NoMatch
      \* export\s+(?:default\s+)?(?:function|class|const|let|var)?\s*(\w+)
      Export ==
        LET a == i + 6 + S(i + 6)
            \* from position b: the optional keyword, then \s*(\w+)
            NameFrom(b) ==
              LET Name(c) ==
                    IF W(c + S(c)) > 0
                    THEN Found(c + S(c) + W(c + S(c)) - 1,
                               Slice(s, c + S(c), c + S(c) + W(c + S(c)) - 1), <<>>)
                    ELSE NoMatch
                  kws == <<<<"f","u","n","c","t","i","o","n">>, <<"c","l","a","s","s">>, <<"c","o","n","s","t">>, <<"l","e","t">>, <<"v","a","r">>>>
              IN  FirstFound([k \in 1..(Len(kws) + 1) |->
                    IF k > Len(kws) THEN Name(b)
                    ELSE IF Lit(kws[k], b) THEN Name(b + Len(kws[k])) ELSE NoMatch])
        IN  IF Lit(<<"e","x","p","o","r","t">>, i) /\ S(i + 6) > 0
            THEN FirstFound(<<
                   IF Lit(<<"d","e","f","a","u","l","t">>, a) /\ S(a + 7) > 0
                   THEN NameFrom(a + 7 + S(a + 7)) ELSE NoMatch,
                   NameFrom(a) >>)
            ELSE NoMatch
      \* <(\w+)[^>]*>
      Tag ==
        LET a == i + 1 + W(i + 1)
            close == a + Until(a, {">"})
        IN  IF Lit(<<"<">>, i) /\ W(i + 1) > 0 /\ close <= Len(s)
            THEN Found(close, Slice(s, i + 1, a - 1), <<>>)
            ELSE NoMatch
      \* (?:fetch|axios|api)\s*\(\s*['"`]([^'"`]+)['"`]
      ApiCall(kw) ==
        LET a == i + Len(kw) + S(i + Len(kw))
            q == a + 1 + S(a + 1)
            n == Until(q + 1, Quotes)
        IN  IF Lit(kw, i) /\ Is(a, {"("}) /\ Is(q, Quotes) /\ n > 0
               /\ Is(q + 1 + n, Quotes)
            THEN Found(q + 1 + n, Slice(s, q + 1, q + n), <<>>)
            ELSE NoMatch
      \* (\w+)\s*\([^)]*\)\s*{
      Method ==
        LET a == i + W(i) + S(i + W(i))
            close == a + 1 + Until(a + 1, {")"})
            b == close + 1 + S(close + 1)
        IN  IF W(i) > 0 /\ Is(a, {"("}) /\ close <= Len(s) /\ Is(b, {"{"})
            THEN Found(b, Slice(s, i, i + W(i) - 1), <<>>)
            ELSE NoMatch
      \* use[A-Z]\w*\(
      Hook ==
        IF Lit(<<"u","s","e">>, i) /\ Is(i + 3, UpperChars) /\ Is(i + 4 + W(i + 4), {"("})
        THEN Found(i + 4 + W(i + 4), <<>>, <<>>)
        ELSE NoMatch
      \* Route\s+
      RouteSpace ==
        IF Lit(<<"R","o","u","t","e">>, i) /\ S(i + 5) > 0 THEN Found(i + 4 + S(i + 5), <<>>, <<>>)
        ELSE NoMatch
      \* on[A-Z]
      OnUpper ==
        IF Lit(<<"o","n">>, i) /\ Is(i + 2, UpperChars) THEN Found(i + 2, <<>>, <<>>)
        ELSE NoMatch
  IN  CASE type = "function" ->
             FirstFound(<<KeywordName(<<"f","u","n","c","t","i","o","n">>, 1), KeywordName(<<"c","o","n","s","t">>, 1),
                          KeywordName(<<"l","e","t">>, 1), KeywordName(<<"v","a","r">>, 1),
                          KeywordName(<<"c","l","a","s","s">>, 2), Assigned>>)
        [] type = "import" -> Import
        [] type = "export" -> Export
        [] type = "component" ->
             FirstFound(<<Tag, PrefixName(<<"R","e","a","c","t",".","c","r","e","a","t","e","E","l","e","m","e","n","t","(">>, 2)>>)
        [] type = "api" -> FirstFound(<<ApiCall(<<"f","e","t","c","h">>), ApiCall(<<"a","x","i","o","s">>), ApiCall(<<"a","p","i">>)>>)
        [] type = "state" -> Literals(<<<<"u","s","e","S","t","a","t","e","(">>, <<"s","e","t","S","t","a","t","e","(">>, <<"t","h","i","s",".","s","t","a","t","e">>>>)
        [] type = "props" ->
             FirstFound(<<PrefixName(<<"p","r","o","p","s",".">>, 1), PrefixName(<<"t","h","i","s",".","p","r","o","p","s",".">>, 2)>>)
        [] type = "method" -> Method
        [] type = "stateManagement" ->
             LiteralsFold(<<<<"u","s","e","C","o","n","t","e","x","t","(">>, <<"c","r","e","a","t","e","C","o","n","t","e","x","t","(">>, <<"u","s","e","R","e","d","u","c","e","r","(">>, <<"u","s","e","S","t","a","t","e","(">>,
                            <<"z","u","s","t","a","n","d">>, <<"r","e","d","u","x">>, <<"c","o","n","t","e","x","t">>>>)
        [] type = "hooks" ->
             FirstFound(<<Hook, Literals(<<<<"u","s","e","E","f","f","e","c","t","(">>, <<"u","s","e","M","e","m","o","(">>, <<"u","s","e","C","a","l","l","b","a","c","k","(">>>>)>>)
        [] type = "routing" ->
             FirstFound(<<Literals(<<<<"u","s","e","R","o","u","t","e","r","(">>, <<"u","s","e","N","a","v","i","g","a","t","e","(">>>>), RouteSpace,
                          Literals(<<<<"r","o","u","t","e","r",".">>, <<"n","a","v","i","g","a","t","e","(">>>>)>>)
        [] type = "styling" ->
             Literals(<<<<"s","t","y","l","e","d",".">>, <<"c","s","s","backtick">>, <<"c","l","a","s","s","N","a","m","e","=">>, <<".","m","o","d","u","l","e",".">>, <<"t","a","i","l","w","i","n","d">>, <<"@","a","p","p","l","y">>>>)
        [] type = "database" ->
             Literals(<<<<"p","r","i","s","m","a",".">>, <<"m","o","n","g","o","o","s","e",".">>, <<"s","e","q","u","e","l","i","z","e",".">>, <<"s","q","l","backtick">>, <<"q","u","e","r","y","(">>>>)
        [] type = "auth" ->
             Literals(<<<<"a","u","t","h",".">>, <<"l","o","g","i","n","(">>, <<"l","o","g","o","u","t","(">>, <<"s","i","g","n","i","n","(">>, <<"a","u","t","h","e","n","t","i","c","a","t","e","(">>>>)
        [] type = "validation" ->
             Literals(<<<<"y","u","p",".">>, <<"j","o","i",".">>, <<"z","o","d",".">>, <<"v","a","l","i","d","a","t","e","(">>, <<"s","c","h","e","m","a",".">>>>)
        [] type = "testing" ->
             Literals(<<<<"t","e","s","t","(">>, <<"i","t","(">>, <<"d","e","s","c","r","i","b","e","(">>, <<"e","x","p","e","c","t","(">>, <<"j","e","s","t",".">>, <<"v","i","t","e","s","t",".">>>>)
        [] type = "config" ->
             Literals(<<<<"p","r","o","c","e","s","s",".","e","n","v",".">>, <<"c","o","n","f","i","g",".">>, <<".","e","n","v">>, <<"e","n","v","i","r","o","n","m","e","n","t">>>>)
        [] type = "apiIntegration" ->
             Literals(<<<<"a","x","i","o","s",".">>, <<"f","e","t","c","h","(">>, <<"a","p","i",".">>, <<"e","n","d","p","o","i","n","t">>, <<"h","t","t","p",".">>>>)
        [] type = "eventHandling" ->
             FirstFound(<<Literals(<<<<"o","n","C","l","i","c","k">>, <<"o","n","C","h","a","n","g","e">>, <<"o","n","S","u","b","m","i","t">>,
                                     <<"a","d","d","E","v","e","n","t","L","i","s","t","e","n","e","r">>>>), OnUpper>>)
        [] type = "dataFetching" ->
             Literals(<<<<"u","s","e","Q","u","e","r","y","(">>, <<"u","s","e","M","u","t","a","t","i","o","n","(">>, <<"S","W","R">>, <<"r","e","a","c","t","-","q","u","e","r","y">>, <<"a","p","o","l","l","o">>>>)
        [] type = "formHandling" ->
             Literals(<<<<"u","s","e","F","o","r","m","(">>, <<"f","o","r","m","i","k">>, <<"r","e","a","c","t","-","h","o","o","k","-","f","o","r","m">>, <<"o","n","S","u","b","m","i","t">>>>)

\* cleanText.match(pattern) for the pattern named type: a regular expression without
\* the g flag finds the match that begins leftmost
PatternMatch(type, cleanText) ==
  LET First(hits) ==
        IF hits = {} THEN NoMatch
        ELSE PatternAt(type, cleanText, CHOOSE i \in hits : \A j \in hits : i <= j)
  IN  First({i \in 1..Len(cleanText) : PatternAt(type, cleanText, i).found})

\* the loop over the table from its k-th pattern on: the first pattern that matches
\* sets the three values and ends the loop
RECURSIVE ClassifyFrom(_, _)
ClassifyFrom(cleanText, k) ==
  IF k > Len(codePatterns)
  THEN [type |-> "general", info |-> <<>>, context |-> <<>>]
  ELSE LET \* extractedInfo = match[1] || match[2] || match[0]
           MatchInfo(match) ==
             IF match.g1 # <<>> THEN match.g1
             ELSE IF match.g2 # <<>> THEN match.g2 ELSE match.whole
           FunctionalityContext(type) ==
             CASE type = "stateManagement" ->
                    (IF includes(cleanText, <<"z","u","s","t","a","n","d">>) THEN <<"Z","u","s","t","a","n","d"," ","s","t","a","t","e"," ","m","a","n","a","g","e","m","e","n","t">>
                     ELSE IF includes(cleanText, <<"r","e","d","u","x">>) THEN <<"R","e","d","u","x"," ","s","t","a","t","e"," ","m","a","n","a","g","e","m","e","n","t">>
                     ELSE IF includes(cleanText, <<"c","o","n","t","e","x","t">>) THEN <<"R","e","a","c","t"," ","C","o","n","t","e","x","t"," ","A","P","I">>
                     ELSE IF includes(cleanText, <<"u","s","e","S","t","a","t","e">>) THEN <<"R","e","a","c","t"," ","l","o","c","a","l"," ","s","t","a","t","e">>
                     ELSE <<>>)
               [] type = "auth" -> <<"A","u","t","h","e","n","t","i","c","a","t","i","o","n"," ","s","y","s","t","e","m">>
               [] type = "apiIntegration" -> <<"A","P","I"," ","i","n","t","e","g","r","a","t","i","o","n">>
               [] type = "formHandling" -> <<"F","o","r","m"," ","h","a","n","d","l","i","n","g">>
               [] type = "routing" -> <<"N","a","v","i","g","a","t","i","o","n","/","r","o","u","t","i","n","g">>
               [] type = "dataFetching" -> <<"D","a","t","a"," ","f","e","t","c","h","i","n","g">>
               [] OTHER -> <<>>
           Hit(match) ==
             IF match.found
             THEN [type |-> codePatterns[k], info |-> MatchInfo(match),
                   context |-> FunctionalityContext(codePatterns[k])]
             ELSE ClassifyFrom(cleanText, k + 1)
       IN  Hit(PatternMatch(codePatterns[k], cleanText))

\* the loop without its break: the last pattern that matches sets the values
ClassifyLine_LastMatch(cleanText) ==
  LET matching == {k \in 1..Len(codePatterns) : PatternMatch(codePatterns[k], cleanText).found}
      Last(k) == [ClassifyFrom(cleanText, k) EXCEPT !.type = codePatterns[k]]
  IN  IF matching = {} THEN [type |-> "general", info |-> <<>>, context |-> <<>>]
      ELSE Last(CHOOSE k \in matching : \A j \in matching : j <= k)

ClassifyLine(cleanText) == ClassifyFrom(cleanText, 1)

\* A line element of the diff is a record: cls is its class ("blob-code-addition",
\* "blob-code-deletion" or "none"), lineType its data-line-type attribute ("add",
\* "remove", "context", or "none" when it has none), text its textContent.  No element
\* has the classes js-file-line-container, js-addition, js-deletion, blob-addition,
\* blob-deletion or line.

\* generateChangeSummary as the call in extractCodeChanges reaches it: the declaration
\* with the parameter files is the later of the two declarations of that name, so it is
\* the one that runs, with files = addedChunk.  A line record has no filename:
\* file.filename.split throws on the first record.  With no record the loops do
\* nothing and the empty array is returned.  The value tells an array from a string
\* by its kind.
generateChangeSummary(files) ==
  IF files # <<>> /\ "filename" \notin DOMAIN files[1]
  THEN [threw |-> TRUE, value |-> [kind |-> "none", items |-> <<>>]]
  ELSE [threw |-> FALSE, value |-> [kind |-> "array", items |-> <<>>]]

\* the lines selected by '.blob-addition, .js-addition, tr[data-line-type="add"]' and by
\* the analogue for removals, at most SimpleLimit of each; content is
\* line.textContent.trim().replace(/^\+\s*/, '') (or /^-\s*/), kept when it is longer
\* than MinSimpleLength and content.match(/^\s*[{}()[\];,]\s*$/) fails
extractSimpleCodeChanges(container) ==
  LET StripMarker(t, marker) ==
        IF startsWith(t, <<marker>>) THEN Slice(t, 2 + RunLength(t, 2, Whitespace), Len(t))
        ELSE t
      IsLonePunctuation(t) ==
        Len(t) = 1 /\ t[1] \in {"{", "}", "(", ")", "[", "]", ";", ","}
      Kept(lines, marker, type) ==
        LET content(i) == StripMarker(trim(lines[i].text), marker)
            keep == SelectSeq([i \in 1..Len(lines) |-> i],
                              LAMBDA i : Len(content(i)) > MinSimpleLength
                                         /\ ~IsLonePunctuation(trim(content(i))))
        IN  [j \in 1..Len(keep) |->
               [type |-> type, content |-> content(keep[j]), context |-> "code"]]
  IN  Take(Kept(Take(SelectSeq(container, LAMBDA l : l.lineType = "add"), SimpleLimit),
                "+", "addition")
           \o Kept(Take(SelectSeq(container, LAMBDA l : l.lineType = "remove"), SimpleLimit),
                   "-", "deletion"),
           SimpleLimit)

\* extractCodeChanges has been called on container and is about to start its loop;
\* diffLines is what the first selector of diffSelectors that selects something selects
NewScan(container) ==
  LET Chosen(blob, typed) == IF blob # <<>> THEN blob ELSE typed
  IN  [container |-> container,
       diffLines |->
         Chosen(SelectSeq(container,
                          LAMBDA l : l.cls \in {"blob-code-addition", "blob-code-deletion"}),
                SelectSeq(container, LAMBDA l : l.lineType # "none")),
       index |-> 0, addedChunk |-> <<>>, removedChunk |-> <<>>, contextLines |-> <<>>,
       changes |-> <<>>, result |-> [kind |-> "pending", records |-> <<>>]]

\* one run of the forEach callback, for the next line of diffLines.  When
\* generateChangeSummary throws, the catch block of extractCodeChanges returns what
\* extractSimpleCodeChanges returns.
ProcessDiffLine ==
  /\ scan # <<>>
  /\ scan.result.kind = "pending"
  /\ scan.index < Len(scan.diffLines)
  /\ LET Run(line, index, cleanText) ==
           LET isAddition ==
                 line.cls = "blob-code-addition" \/ line.lineType = "add"
                   \/ startsWith(line.text, <<"+">>)
               isDeletion ==
                 line.cls = "blob-code-deletion" \/ line.lineType = "remove"
                   \/ startsWith(line.text, <<"-">>)
               isContext == ~isAddition /\ ~isDeletion
               Package(added, removed, context) ==
                 LET Emit(summary) ==
                       IF summary.threw
                       THEN [scan EXCEPT
                               !.index = index + 1, !.addedChunk = added,
                               !.removedChunk = removed, !.contextLines = context,
                               !.result = [kind |-> "simple",
                                           records |-> extractSimpleCodeChanges(scan.container)]]
                       ELSE [scan EXCEPT
                               !.index = index + 1, !.addedChunk = <<>>,
                               !.removedChunk = <<>>, !.contextLines = context,
                               !.changes =
                                 Append(@, [type |-> "modification",
                                            context |-> Slice(context, Len(context) - 1,
                                                              Len(context)),
                                            added |-> added, removed |-> removed,
                                            summary |-> summary.value])]
                 IN  IF (isContext \/ index = Len(scan.diffLines) - 1)
                        /\ (added # <<>> \/ removed # <<>>)
                     THEN Emit(generateChangeSummary(added))
                     ELSE [scan EXCEPT !.index = index + 1, !.addedChunk = added,
                                       !.removedChunk = removed, !.contextLines = context]
               Push(c) ==
                 LET rec == [content |-> cleanText, type |-> c.type, info |-> c.info,
                             context |-> c.context, lineNumber |-> index]
                 IN  Package(IF isAddition THEN Append(scan.addedChunk, rec)
                             ELSE scan.addedChunk,
                             IF ~isAddition /\ isDeletion THEN Append(scan.removedChunk, rec)
                             ELSE scan.removedChunk,
                             IF isContext /\ Len(cleanText) > MinContextLength
                             THEN Append(scan.contextLines, rec)
                             ELSE scan.contextLines)
           IN  IF Len(cleanText) < MinCleanLength
               THEN [scan EXCEPT !.index = index + 1]
               ELSE Push(ClassifyLine(cleanText))
     IN  scan' = Run(scan.diffLines[scan.index + 1], scan.index,
                     CleanDiffText(scan.diffLines[scan.index + 1].text))
  /\ UNCHANGED <<chunkSummary, waiter, fileHeader, popup, synthesis, injection, keyReplies, navigation, variant, page, extracted, cycleVars, backgroundVars>>

\* the loop is over: return changes.slice(0, 15)
ReturnChanges ==
  /\ scan # <<>>
  /\ scan.result.kind = "pending"
  /\ scan.index = Len(scan.diffLines)
  /\ scan' = [scan EXCEPT !.result = [kind |-> "grouped",
                                      records |-> Take(scan.changes, MaxChanges)]]
  /\ UNCHANGED <<chunkSummary, waiter, fileHeader, popup, synthesis, injection, keyReplies, navigation, variant, page, extracted, cycleVars, backgroundVars>>

MaxDiffLines == 3     \* line elements of a diff container

DiffElements ==
  { [cls |-> "none", lineType |-> "add", text |-> <<"u","s","e","S","t","a","t","e","(","0",")">>],
    [cls |-> "none", lineType |-> "add", text |-> <<"+","1","2"," ","i","m","p","o","r","t"," ","a"," ","f","r","o","m"," ","'","b","'",";"," ","l","e","t"," ","c">>],
    [cls |-> "none", lineType |-> "context", text |-> <<"r","e","t","u","r","n"," ","t","o","t","a","l">>],
    [cls |-> "none", lineType |-> "context", text |-> <<"}">>],
    [cls |-> "none", lineType |-> "remove", text |-> <<"l","o","g","i","n","(","u","s","e","r",")">>],
    [cls |-> "blob-code-addition", lineType |-> "none", text |-> <<"c","l","a","s","s"," ","F","o","o">>] }

\* every variable of the content script's cycle and of the background script at rest
MainIdle ==
  /\ variant = "current"
  /\ page = <<>>
  /\ extracted = NotExtracted
  /\ bgVariant = "basic"
  /\ provider = "local"
  /\ storedKey = ""
  /\ requests = <<>>
  /\ diff = [present |-> TRUE, files |-> <<>>]
  /\ buttons = <<>>
  /\ attached = <<>>
  /\ initTimer = FALSE
  /\ triggerTimers = 0
  /\ cycles = <<>>
  /\ tabMessages = 0
  /\ notification = NoNotice
  /\ form = NoForm
  /\ lastCall = NoCall

InitCodeChanges ==
  /\ MainIdle
  /\ chunkSummary = <<>> /\ waiter = <<>> /\ fileHeader = <<>> /\ popup = <<>>
  /\ synthesis = <<>>
  /\ injection = <<>>
  /\ keyReplies = <<>>
  /\ navigation = <<>>
  /\ \E container \in SeqsUpTo(DiffElements, MaxDiffLines) : scan = NewScan(container)

NextCodeChanges ==
  \/ ProcessDiffLine
  \/ ReturnChanges

SpecCodeChanges == InitCodeChanges /\ [][NextCodeChanges]_vars

-----------------------------------------------------------------------------
(* Claims about extractCodeChanges                                         *)

\* C11 (as the code has it): every line record that extractCodeChanges has pushed has
\* the name of the first pattern of the table, in table order, that matches its
\* content as its type, and as its info the first capture group of that match if it is
\* not empty, else the second if it is not empty, else the whole matched text; its type
\* is "general" and its info empty exactly when no pattern matches; a line that both the
\* import and the function pattern match has the type "function".
C11_FirstMatchWins ==
  LET Range(q) == {q[i] : i \in 1..Len(q)}
      records == Range(scan.addedChunk) \cup Range(scan.removedChunk)
                   \cup Range(scan.contextLines)
                   \cup UNION {Range(c.added) \cup Range(c.removed) \cup Range(c.context) :
                                 c \in Range(scan.changes)}
      Right(rec, matching) ==
        LET Info(m) == IF m.g1 # <<>> THEN m.g1 ELSE IF m.g2 # <<>> THEN m.g2 ELSE m.whole
            first == CHOOSE k \in matching : \A j \in matching : k <= j
        IN  /\ (matching = {}) <=> (rec.type = "general")
            /\ matching = {} => rec.info = <<>>
            /\ matching # {} =>
                 /\ rec.type = codePatterns[first]
                 /\ rec.info = Info(PatternMatch(codePatterns[first], rec.content))
                 /\ rec.info # <<>>
            /\ {1, 2} \subseteq matching => rec.type = "function"
  IN  \A rec \in records :
        Right(rec, {k \in 1..Len(codePatterns) :
                      PatternMatch(codePatterns[k], rec.content).found})

\* C11 as stated: the info is the first non-empty of the first two capture groups of
\* the winning pattern, and nothing else
C11_InfoFromTwoGroups ==
  LET Range(q) == {q[i] : i \in 1..Len(q)}
      records == Range(scan.addedChunk) \cup Range(scan.removedChunk)
                   \cup Range(scan.contextLines)
                   \cup UNION {Range(c.added) \cup Range(c.removed) \cup Range(c.context) :
                                 c \in Range(scan.changes)}
      Right(rec, matching) ==
        LET Info(m) == IF m.g1 # <<>> THEN m.g1 ELSE m.g2
            first == CHOOSE k \in matching : \A j \in matching : k <= j
        IN  /\ (matching = {}) <=> (rec.type = "general")
            /\ matching = {} => rec.info = <<>>
            /\ matching # {} =>
                 /\ rec.type = codePatterns[first]
                 /\ rec.info = Info(PatternMatch(codePatterns[first], rec.content))
  IN  \A rec \in records :
        Right(rec, {k \in 1..Len(codePatterns) :
                      PatternMatch(codePatterns[k], rec.content).found})

\* a pushed line that the import pattern and the function pattern both match, next to
\* a pushed line that no pattern matches
C11_Witness ==
  LET Range(q) == {q[i] : i \in 1..Len(q)}
      records == Range(scan.addedChunk) \cup Range(scan.removedChunk)
                   \cup Range(scan.contextLines)
  IN  /\ \E rec \in records :
           /\ PatternMatch("import", rec.content).found
           /\ PatternMatch("function", rec.content).found
           /\ rec.type = "function"
      /\ \E rec \in records :
           /\ rec.type = "general"
           /\ \A k \in 1..Len(codePatterns) : ~PatternMatch(codePatterns[k], rec.content).found

\* C19: hunk packaging loses no line.  Once extractCodeChanges has returned, no added
\* or removed line is left in a pending buffer, and (below the cap of MaxChanges
\* records) every line of diffLines that was classified as added or removed is in
\* exactly one returned record, in its added or its removed list and not in both.
C19_NoLineLost ==
  LET lines == scan.diffLines
      Classified(i) ==
        /\ Len(CleanDiffText(lines[i].text)) >= MinCleanLength
        /\ \/ lines[i].cls \in {"blob-code-addition", "blob-code-deletion"}
           \/ lines[i].lineType \in {"add", "remove"}
           \/ startsWith(lines[i].text, <<"+">>) \/ startsWith(lines[i].text, <<"-">>)
      Holds(records, i) ==
        {<<r, side, j>> \in (1..Len(records)) \X {"added", "removed"} \X (1..Len(lines)) :
           /\ "added" \in DOMAIN records[r]
           /\ j <= Len(records[r][side])
           /\ records[r][side][j].lineNumber = i - 1}
  IN  scan.result.kind # "pending" =>
        /\ scan.addedChunk = <<>>
        /\ scan.removedChunk = <<>>
        /\ Len(scan.changes) <= MaxChanges =>
             \A i \in 1..Len(lines) :
               Classified(i) => Cardinality(Holds(scan.result.records, i)) = 1

\* C20: every record that extractCodeChanges has emitted carries a summary that is a
\* string, and extractCodeChanges returns the grouped records whenever one of the diff
\* lines is an added line.
C20_SummaryIsSentence ==
  /\ \A r \in 1..Len(scan.changes) : scan.changes[r].summary.kind = "string"
  /\ scan.result.kind # "pending" =>
       ( (\E i \in 1..Len(scan.diffLines) :
            /\ Len(CleanDiffText(scan.diffLines[i].text)) >= MinCleanLength
            /\ \/ scan.diffLines[i].cls = "blob-code-addition"
               \/ scan.diffLines[i].lineType = "add"
               \/ startsWith(scan.diffLines[i].text, <<"+">>))
         => scan.result.kind = "grouped" )

-----------------------------------------------------------------------------
(* generateLocalPRDescription on its own: arguments are given, the         *)
(* function runs once.  The versions are "detailed" (part_001 237-320) and *)
(* "basic" (background.js 145-203), which has the parameter commits only.  *)

MaxSynthCommits == 3     \* commits in an argument drawn freely
LongListLength == 11     \* commits in the one long argument

SynthCommits ==
  { T_ok,                                   \* 'Fix login bug'
    <<"U","p","d","a","t","e"," ","R","E","A","D","M","E">>,
    <<"A","d","d"," ","u","s","e","r"," ","f","e","a","t","u","r","e">>,
    <<"R","e","f","a","c","t","o","r"," ","p","a","r","s","e","r">>,
    <<"t","y","p","o">>,
    <<"F","i","x"," ","V","i","e","w"," ","C","o","m","m","i","t"," ","D","e","t","a","i","l","s"," ","l","i","n","k">> }

SynthFileChanges ==
  LET Deleted == [AddedFile EXCEPT !.status = "deleted", !.additions = 0, !.deletions = 4]
      Renamed == [AddedFile EXCEPT !.status = "renamed", !.additions = 0]
      AddedCss == [AddedFile EXCEPT !.filename = F_buttonCss]
      AddedJs == [AddedFile EXCEPT !.filename = <<"l","i","b","/","a",".","b",".","j","s">>]
  IN  {NoFileChanges} \cup
      { [present |-> TRUE, files |-> files] :
          files \in { <<>>, <<AddedFile>>, <<AddedFile, AddedJs>>, <<AddedFile, AddedCss>>,
                      <<ModifiedFile, AddedFile>>, <<ModifiedFile>>, <<Deleted>>,
                      <<Deleted, ModifiedFile>>, <<Renamed>> } }

InitSynthesis ==
  /\ MainIdle
  /\ chunkSummary = <<>> /\ waiter = <<>> /\ fileHeader = <<>> /\ popup = <<>>
  /\ scan = <<>>
  /\ injection = <<>>
  /\ keyReplies = <<>>
  /\ navigation = <<>>
  /\ \E bv \in {"detailed", "basic"},
        commits \in SeqsUpTo(SynthCommits, MaxSynthCommits)
                      \cup {[i \in 1..LongListLength |-> IF i = 2 THEN <<"t","y","p","o">> ELSE T_ok]},
        fileChanges \in SynthFileChanges,
        detailedAnalysis \in BOOLEAN :
        synthesis = [bv |-> bv, commits |-> commits, fileChanges |-> fileChanges,
                     detailedAnalysis |-> detailedAnalysis, done |-> FALSE, text |-> <<>>]

\* the call returns
Synthesize ==
  /\ synthesis # <<>>
  /\ ~synthesis.done
  /\ synthesis' =
       [synthesis EXCEPT
          !.done = TRUE,
          !.text = generateLocalPRDescription(synthesis.bv, synthesis.commits,
                                              synthesis.fileChanges,
                                              synthesis.detailedAnalysis)]
  /\ UNCHANGED <<chunkSummary, waiter, fileHeader, popup, scan, injection, keyReplies, navigation, variant, page, extracted, cycleVars, backgroundVars>>

SpecSynthesis == InitSynthesis /\ [][Synthesize]_vars

\* C12: when the title is not taken from the file statuses, it is taken from the
\* commits that survive the filter (longer than 5 characters, without 'view commit
\* details' in any case): the one commit itself if one survives; with several, 'Add new
\* features and improvements' if one contains 'add' or 'feature', else 'Fix bugs and
\* issues' if one contains 'fix' or 'bug', else 'Update and improve functionality' if
\* one contains 'update' or 'improve', else 'Multiple improvements and changes'; 'Code
\* improvements' if none survives.
C12_CommitTitle ==
  LET text == synthesis.text
      title == Slice(text, Len(Layout.titlePrefix) + 1, indexOf(text, Layout.description) - 1)
      C == SelectSeq(synthesis.commits,
                     LAMBDA c : Len(c) > 5 /\ ~includes(toLowerCase(c), <<"v","i","e","w"," ","c","o","m","m","i","t"," ","d","e","t","a","i","l","s">>))
      Has(w) == \E i \in 1..Len(C) : includes(toLowerCase(C[i]), w)
      byFiles == /\ synthesis.bv = "detailed"
                 /\ synthesis.detailedAnalysis
                 /\ synthesis.fileChanges.present
                 /\ synthesis.fileChanges.files # <<>>
  IN  synthesis.done /\ ~byFiles =>
        /\ startsWith(text, Layout.titlePrefix)
        /\ Len(C) = 1 => title = C[1]
        /\ Len(C) = 0 => title = <<"C","o","d","e"," ","i","m","p","r","o","v","e","m","e","n","t","s">>
        /\ Len(C) > 1 =>
             title = IF Has(<<"a","d","d">>) \/ Has(<<"f","e","a","t","u","r","e">>) THEN <<"A","d","d"," ","n","e","w"," ","f","e","a","t","u","r","e","s"," ","a","n","d"," ","i","m","p","r","o","v","e","m","e","n","t","s">>
                     ELSE IF Has(<<"f","i","x">>) \/ Has(<<"b","u","g">>) THEN <<"F","i","x"," ","b","u","g","s"," ","a","n","d"," ","i","s","s","u","e","s">>
                     ELSE IF Has(<<"u","p","d","a","t","e">>) \/ Has(<<"i","m","p","r","o","v","e">>)
                     THEN <<"U","p","d","a","t","e"," ","a","n","d"," ","i","m","p","r","o","v","e"," ","f","u","n","c","t","i","o","n","a","l","i","t","y">>
                     ELSE <<"M","u","l","t","i","p","l","e"," ","i","m","p","r","o","v","e","m","e","n","t","s"," ","a","n","d"," ","c","h","a","n","g","e","s">>

\* ['Fix login bug', 'Update README'] without detailed analysis has been given the
\* title 'Fix bugs and issues'
C12_Witness ==
  /\ synthesis.done
  /\ synthesis.commits = <<T_ok, <<"U","p","d","a","t","e"," ","R","E","A","D","M","E">>>>
  /\ ~synthesis.detailedAnalysis
  /\ startsWith(synthesis.text, Layout.titlePrefix \o <<"F","i","x"," ","b","u","g","s"," ","a","n","d"," ","i","s","s","u","e","s">> \o <<"\n">>)

\* C13 (as the code has it): in the version with file changes, when detailed analysis
\* is requested and a set of file changes with at least one file is supplied, the
\* title comes from the statuses of the files: with an added file it is 'Add new
\* functionality' (one added file) or 'Add new components and features' (several),
\* followed by ' (<ext> files)' when the added files share one extension; else 'Update
\* and improve existing functionality' with a modified file; else 'Remove deprecated
\* code and files' with a deleted file; else 'Refactor and optimize codebase'.
C13_FileStatusTitle ==
  LET text == synthesis.text
      title == Slice(text, Len(Layout.titlePrefix) + 1, indexOf(text, Layout.description) - 1)
      files == synthesis.fileChanges.files
      With(status) == SelectSeq(files, LAMBDA f : f.status = status)
      Ext(name) ==
        LET dots == {i \in 1..Len(name) : name[i] = "."}
        IN  IF dots = {} THEN name
            ELSE Slice(name, (CHOOSE i \in dots : \A j \in dots : j <= i) + 1, Len(name))
      exts == {Ext(f.filename) : f \in {files[i] : i \in {i \in 1..Len(files) : files[i].status = "added"}}}
  IN  /\ synthesis.done
      /\ synthesis.bv = "detailed"
      /\ synthesis.detailedAnalysis
      /\ synthesis.fileChanges.present
      /\ files # <<>>
      => title =
           IF With("added") # <<>>
           THEN (IF Len(With("added")) > 1 THEN <<"A","d","d"," ","n","e","w"," ","c","o","m","p","o","n","e","n","t","s"," ","a","n","d"," ","f","e","a","t","u","r","e","s">>
                 ELSE <<"A","d","d"," ","n","e","w"," ","f","u","n","c","t","i","o","n","a","l","i","t","y">>)
                  \o (IF Cardinality(exts) = 1
                      THEN <<" ","(">> \o (CHOOSE e \in exts : TRUE) \o <<" ","f","i","l","e","s",")">>
                      ELSE <<>>)
           ELSE IF With("modified") # <<>> THEN <<"U","p","d","a","t","e"," ","a","n","d"," ","i","m","p","r","o","v","e"," ","e","x","i","s","t","i","n","g"," ","f","u","n","c","t","i","o","n","a","l","i","t","y">>
           ELSE IF With("deleted") # <<>> THEN <<"R","e","m","o","v","e"," ","d","e","p","r","e","c","a","t","e","d"," ","c","o","d","e"," ","a","n","d"," ","f","i","l","e","s">>
           ELSE <<"R","e","f","a","c","t","o","r"," ","a","n","d"," ","o","p","t","i","m","i","z","e"," ","c","o","d","e","b","a","s","e">>

\* C13 as stated: whenever a set of file changes is supplied and detailed analysis is
\* requested, the title is one of the file-status phrases (and so not a title made
\* from the commits), by the priority added, modified, deleted
C13_Original ==
  LET text == synthesis.text
      title == Slice(text, Len(Layout.titlePrefix) + 1, indexOf(text, Layout.description) - 1)
      files == synthesis.fileChanges.files
      Some(status) == \E i \in 1..Len(files) : files[i].status = status
  IN  /\ synthesis.done
      /\ synthesis.bv = "detailed"
      /\ synthesis.detailedAnalysis
      /\ synthesis.fileChanges.present
      => /\ \/ startsWith(title, <<"A","d","d"," ","n","e","w"," ","f","u","n","c","t","i","o","n","a","l","i","t","y">>)
            \/ startsWith(title, <<"A","d","d"," ","n","e","w"," ","c","o","m","p","o","n","e","n","t","s"," ","a","n","d"," ","f","e","a","t","u","r","e","s">>)
            \/ title = <<"U","p","d","a","t","e"," ","a","n","d"," ","i","m","p","r","o","v","e"," ","e","x","i","s","t","i","n","g"," ","f","u","n","c","t","i","o","n","a","l","i","t","y">>
            \/ title = <<"R","e","m","o","v","e"," ","d","e","p","r","e","c","a","t","e","d"," ","c","o","d","e"," ","a","n","d"," ","f","i","l","e","s">>
            \/ title = <<"R","e","f","a","c","t","o","r"," ","a","n","d"," ","o","p","t","i","m","i","z","e"," ","c","o","d","e","b","a","s","e">>
         /\ Some("added") =>
              \/ startsWith(title, <<"A","d","d"," ","n","e","w"," ","f","u","n","c","t","i","o","n","a","l","i","t","y">>)
              \/ startsWith(title, <<"A","d","d"," ","n","e","w"," ","c","o","m","p","o","n","e","n","t","s"," ","a","n","d"," ","f","e","a","t","u","r","e","s">>)
         /\ ~Some("added") /\ Some("modified") =>
              title = <<"U","p","d","a","t","e"," ","a","n","d"," ","i","m","p","r","o","v","e"," ","e","x","i","s","t","i","n","g"," ","f","u","n","c","t","i","o","n","a","l","i","t","y">>
         /\ ~Some("added") /\ ~Some("modified") /\ Some("deleted") =>
              title = <<"R","e","m","o","v","e"," ","d","e","p","r","e","c","a","t","e","d"," ","c","o","d","e"," ","a","n","d"," ","f","i","l","e","s">>

\* one added file 'api/users.js', detailed analysis requested: the title is the
\* phrase for one added file, with its extension
C13_Witness ==
  /\ synthesis.done
  /\ synthesis.bv = "detailed"
  /\ synthesis.detailedAnalysis
  /\ synthesis.fileChanges = [present |-> TRUE, files |-> <<AddedFile>>]
  /\ synthesis.commits = <<T_ok, <<"U","p","d","a","t","e"," ","R","E","A","D","M","E">>>>
  /\ startsWith(synthesis.text,
                Layout.titlePrefix \o <<"A","d","d"," ","n","e","w"," ","f","u","n","c","t","i","o","n","a","l","i","t","y"," ","(","j","s"," ","f","i","l","e","s",")">> \o <<"\n">>)

\* C14: the synthesized description lists exactly the commits that survive the filter,
\* in input order, one per line, the k-th of them as 'k. <commit>' with k counted from 1
\* over the surviving commits.
C14_NumberedList ==
  LET text == synthesis.text
      C == SelectSeq(synthesis.commits,
                     LAMBDA c : Len(c) > 5 /\ ~includes(toLowerCase(c), <<"v","i","e","w"," ","c","o","m","m","i","t"," ","d","e","t","a","i","l","s">>))
      Listed(first, after) ==
        LET list == Slice(text, first, after - 1)
            digit == <<"0", "1", "2", "3", "4", "5", "6", "7", "8", "9">>
            Decimal(k) == IF k < 10 THEN <<digit[k + 1]>>
                          ELSE <<digit[(k \div 10) + 1], digit[(k % 10) + 1]>>
        IN  /\ after > 0
            /\ IF C = <<>> THEN list = <<>>
               ELSE SplitLines(list) = [k \in 1..Len(C) |-> Decimal(k) \o <<"."," ">> \o C[k]]
  IN  synthesis.done =>
        IF synthesis.bv = "detailed"
        THEN Listed(indexOf(text, Layout.description) + Len(Layout.description),
                    indexOf(text, Layout.keyFeatures))
        ELSE Listed(indexOf(text, Layout.description) + Len(Layout.description)
                      + Len(Layout.changesMade),
                    indexOf(text, Layout.summaryIntro))

\* the long commit list, whose second commit is filtered out, has been synthesized:
\* its third commit is listed as number 2, its last as number 10
C14_Witness ==
  /\ synthesis.done
  /\ Len(synthesis.commits) = LongListLength
  /\ includes(synthesis.text, <<"\n","2","."," ">> \o synthesis.commits[3] \o <<"\n">>)
  /\ includes(synthesis.text,
              <<"\n">> \o NumberText(LongListLength - 1) \o <<"."," ">> \o synthesis.commits[LongListLength])

-----------------------------------------------------------------------------
(* insertDescription of the content script on its own: it is called once   *)
(* with a description (a text, or undefined as the background script may   *)
(* send it) on a page whose title input and body textarea are present or   *)
(* missing.                                                                *)

\* the for loop over the lines from line i on; st holds title, body, isDescription
RECURSIVE ParseLines(_, _, _)
ParseLines(lines, i, st) ==
  IF i > Len(lines) THEN st
  ELSE ParseLines(lines, i + 1,
         IF startsWith(lines[i], <<"T","i","t","l","e",":">>)
         THEN [st EXCEPT !.title = trim(Slice(lines[i], Len(<<"T","i","t","l","e",":">>) + 1, Len(lines[i])))]
         ELSE IF includes(toLowerCase(lines[i]), <<"d","e","s","c","r","i","p","t","i","o","n",":">>)
         THEN [st EXCEPT !.isDescription = TRUE]
         ELSE IF st.isDescription /\ trim(lines[i]) # <<>>
         THEN [st EXCEPT !.body = @ \o lines[i] \o <<"\n">>]
         ELSE st)

\* the parsing with the body trimmed in the structured case too
ParsedDescription_TrimmedBody(description) ==
  LET lines == SplitLines(description)
      Parsed(st) ==
        IF st.title = <<>> /\ Len(lines) > 0
        THEN [title |-> trim(lines[1]),
              body |-> trim(Join(SubSeq(lines, 2, Len(lines)), <<"\n">>))]
        ELSE [title |-> st.title, body |-> trim(st.body)]
  IN  Parsed(ParseLines(lines, 1, [title |-> <<>>, body |-> <<>>, isDescription |-> FALSE]))

\* the parsing whose fallback sets the title only and keeps the body of the loop
ParsedDescription_KeepBody(description) ==
  LET lines == SplitLines(description)
      Parsed(st) ==
        IF st.title = <<>> /\ Len(lines) > 0
        THEN [title |-> trim(lines[1]), body |-> st.body]
        ELSE [title |-> st.title, body |-> st.body]
  IN  Parsed(ParseLines(lines, 1, [title |-> <<>>, body |-> <<>>, isDescription |-> FALSE]))

\* title and body as insertDescription parses them out of description: the loop, then
\* the fallback to the first line when the loop found no title
ParsedDescription(description) ==
  LET lines == SplitLines(description)
      Parsed(st) ==
        IF st.title = <<>> /\ Len(lines) > 0
        THEN [title |-> trim(lines[1]),
              body |-> trim(Join(SubSeq(lines, 2, Len(lines)), <<"\n">>))]
        ELSE [title |-> st.title, body |-> st.body]
  IN  Parsed(ParseLines(lines, 1, [title |-> <<>>, body |-> <<>>, isDescription |-> FALSE]))

\* a field that is filled, and the events dispatched on it, without the events
FillField_NoEvents(name, field, value) ==
  IF field.present /\ value # <<>>
  THEN [field |-> [field EXCEPT !.value = value], events |-> <<>>]
  ELSE [field |-> field, events |-> <<>>]

\* if (field && value) { field.value = value; dispatch 'input'; dispatch 'change' }
FillField(name, field, value) ==
  IF field.present /\ value # <<>>
  THEN [field |-> [field EXCEPT !.value = value],
        events |-> <<[target |-> name, type |-> "input"], [target |-> name, type |-> "change"]>>]
  ELSE [field |-> field, events |-> <<>>]

\* the whole call: description.split throws when description is not a string, and
\* the catch block shows the error notice; else the fields are filled and the success
\* notice is shown
insertDescription ==
  /\ injection # <<>>
  /\ ~injection.done
  /\ LET Filled(parsed) ==
           LET Both(t, b) ==
                 [injection EXCEPT !.done = TRUE, !.title = parsed.title,
                                   !.body = parsed.body, !.titleInput = t.field,
                                   !.bodyTextarea = b.field,
                                   !.events = t.events \o b.events,
                                   !.notices = <<InsertedNotice>>]
           IN  Both(FillField("title", injection.titleInput, parsed.title),
                    FillField("body", injection.bodyTextarea, parsed.body))
     IN  injection' =
           IF injection.description.kind = "text"
           THEN Filled(ParsedDescription(injection.description.text))
           ELSE [injection EXCEPT !.done = TRUE, !.threw = TRUE,
                                  !.notices = <<InsertFailedNotice>>]
  /\ UNCHANGED <<chunkSummary, waiter, fileHeader, popup, scan, synthesis, keyReplies, navigation, variant, page, extracted, cycleVars, backgroundVars>>

MaxTextLines == 3     \* lines of a description drawn freely

TextLines ==
  { <<"T","i","t","l","e",":"," ","F","o","o">>, <<"D","e","s","c","r","i","p","t","i","o","n",":">>, <<"B","a","r">>, <<>>, <<" "," ","B","a","z"," ">>, <<"T","i","t","l","e",":"," "," ">>,
    <<"#","#"," ","S","h","o","r","t"," ","D","E","S","C","R","I","P","T","I","O","N",":"," ","x">> }

\* the scenario of the specification, five lines long
ScenarioText == <<"T","i","t","l","e",":"," ","F","o","o","\n","\n","D","e","s","c","r","i","p","t","i","o","n",":","\n","B","a","r","\n","B","a","z">>

InitInjection ==
  /\ MainIdle
  /\ chunkSummary = <<>> /\ waiter = <<>> /\ fileHeader = <<>> /\ popup = <<>>
  /\ scan = <<>>
  /\ synthesis = <<>>
  /\ keyReplies = <<>>
  /\ navigation = <<>>
  /\ \E description \in
          {[kind |-> "undefined", text |-> <<>>], [kind |-> "text", text |-> ScenarioText]}
            \cup {[kind |-> "text", text |-> Join(lines, <<"\n">>)] :
                    lines \in SeqsUpTo(TextLines, MaxTextLines) \ {<<>>}},
        hasTitle \in BOOLEAN, hasBody \in BOOLEAN :
        injection = [description |-> description,
                     titleInput |-> [present |-> hasTitle, value |-> <<>>],
                     bodyTextarea |-> [present |-> hasBody, value |-> <<>>],
                     title |-> <<>>, body |-> <<>>, events |-> <<>>, notices |-> <<>>,
                     threw |-> FALSE, done |-> FALSE]

SpecInjection == InitInjection /\ [][insertDescription]_vars

C16_OneNotice ==
  LET Events(name) == SelectSeq(injection.events, LAMBDA e : e.target = name)
      Written(name, field, value) ==
        IF field.present /\ value # <<>>
        THEN /\ field.value = value
             /\ Events(name) = <<[target |-> name, type |-> "input"],
                                 [target |-> name, type |-> "change"]>>
        ELSE field.value = <<>> /\ Events(name) = <<>>
  IN  injection.done =>
        /\ Len(injection.notices) = 1
        /\ ~injection.threw => injection.notices[1] = InsertedNotice
        /\ injection.threw <=> injection.notices[1] = InsertFailedNotice
        /\ injection.threw <=> injection.description.kind # "text"
        /\ ~injection.threw =>
             /\ Written("title", injection.titleInput, injection.title)
             /\ Written("body", injection.bodyTextarea, injection.body)
             /\ \A i, j \in 1..Len(injection.events) :
                  injection.events[i].target = "title" /\ injection.events[j].target = "body"
                    => i < j
        /\ injection.threw => injection.events = <<>>

\* a call on a page without the title field: the body field was filled and got its
\* two events, and the success notice was shown
C16_Witness ==
  /\ injection.done
  /\ ~injection.titleInput.present
  /\ injection.bodyTextarea.present
  /\ injection.bodyTextarea.value # <<>>
  /\ Len(injection.events) = 2
  /\ injection.notices = <<InsertedNotice>>

-----------------------------------------------------------------------------
(* The stored credential: the popup's setApiKey and getApiKey messages, in *)
(* any order.                                                              *)

MaxKeyReplies == 2     \* getApiKey messages answered

\* the onMessage handler on a getApiKey message: getApiKey runs, its result is sent as
\* { apiKey }, its rejection as { error }
ReceiveGetApiKey ==
  /\ Len(keyReplies) < MaxKeyReplies
  /\ \E storageOk \in BOOLEAN :
       LET Reply(credential) ==
             [kind |-> IF credential.ok THEN "apiKey" ELSE "error",
              key |-> credential.key,
              read |-> IF storageOk THEN "ok" ELSE "failed"]
       IN  keyReplies' = Append(keyReplies,
                                Reply(getApiKey(bgVariant, provider, storedKey, storageOk)))
  /\ UNCHANGED <<chunkSummary, waiter, fileHeader, popup, scan, synthesis, injection, navigation, variant, page, extracted, cycleVars, backgroundVars>>

SpecCredential == InitBackground /\ [][SetApiKey \/ ReceiveGetApiKey]_vars

\* C17: in the two versions with the guarded read, every answer to a getApiKey message
\* is a key and never a rejection: the key that storage holds, which is the one the
\* latest setApiKey stored, if the read succeeded and that key is not empty; the
\* default key of the active provider (none for the local provider) if no key is
\* stored or the read failed.
C17_CredentialResolution ==
  [][ /\ Len(keyReplies') > Len(keyReplies)
      /\ bgVariant \in {"detailed", "basic"}
      => LET reply == keyReplies'[Len(keyReplies')]
             default == CASE provider = "openrouter" -> "sk-or-v1-00b3"
                          [] provider = "huggingface" -> "hf_demo"
                          [] provider = "local" -> ""
         IN  /\ reply.kind = "apiKey"
             /\ reply.key = IF reply.read = "ok" /\ storedKey # "" THEN storedKey ELSE default
    ]_vars

\* two getApiKey messages were answered with two different stored keys (a setApiKey
\* came between them), in a version and for a provider that has a default key
C17_Witness ==
  /\ bgVariant \in {"detailed", "basic"}
  /\ provider = "openrouter"
  /\ Len(keyReplies) = 2
  /\ keyReplies[1].key \in UserKeys
  /\ keyReplies[2].key \in UserKeys
  /\ keyReplies[1].key # keyReplies[2].key
  /\ keyReplies[2].key = storedKey

-----------------------------------------------------------------------------
(* Page detection and navigation inside the tab.  The content script was   *)
(* loaded on some page and has called initialize; GitHub then navigates    *)
(* without reloading, which changes location, and changes the document,    *)
(* which runs the MutationObserver callback.  Whether the new page keeps   *)
(* the nodes the extension appended to the body is up to the host page.    *)
(* mutated tells that nodes were added or removed since the last callback, *)
(* lastCallback what the last callback did.                                *)

MaxNavigations == 2     \* navigations without reload

Locations ==
  { [hostname |-> <<"g","i","t","h","u","b",".","c","o","m">>, pathname |-> <<"/","o","/","r","/","c","o","m","p","a","r","e","/","m","a","i","n",".",".",".","d","e","v">>],
    [hostname |-> <<"g","i","t","h","u","b",".","c","o","m">>, pathname |-> <<"/","o","/","r","/","p","u","l","l","/","n","e","w","/","d","e","v">>],
    [hostname |-> <<"g","i","t","h","u","b",".","c","o","m">>, pathname |-> <<"/","o","/","r","/","p","u","l","l","/","7","/","e","d","i","t">>],
    [hostname |-> <<"g","i","t","h","u","b",".","c","o","m">>, pathname |-> <<"/","o","/","r","/","p","u","l","l","/","7">>],
    [hostname |-> <<"g","i","t","h","u","b",".","c","o","m">>, pathname |-> <<"/","o","/","r">>],
    [hostname |-> <<"g","i","s","t",".","g","i","t","h","u","b",".","c","o","m">>, pathname |-> <<"/","o","/","c","o","m","p","a","r","e">>] }

\* isGitHubPR of initialize
isGitHubPR(location) ==
  /\ location.hostname = <<"g","i","t","h","u","b",".","c","o","m">>
  /\ \/ includes(location.pathname, <<"/","c","o","m","p","a","r","e">>)
     \/ includes(location.pathname, <<"/","p","u","l","l","/","n","e","w">>)
     \/ includes(location.pathname, <<"/","p","u","l","l","/">>) /\ includes(location.pathname, <<"/","e","d","i","t">>)

\* the script has run on the page it was loaded on: lastUrl is set and initialize has
\* started its timer if the page is a supported one
InitNavigation ==
  /\ MainIdle
  /\ chunkSummary = <<>> /\ waiter = <<>> /\ fileHeader = <<>> /\ popup = <<>>
  /\ scan = <<>> /\ synthesis = <<>> /\ injection = <<>> /\ keyReplies = <<>>
  /\ \E location \in Locations :
       navigation = [location |-> location, lastUrl |-> location, navigations |-> 0,
                     reinitTimers |-> 0,
                     buttonTimers |-> IF isGitHubPR(location) THEN 1 ELSE 0,
                     mutated |-> FALSE, lastCallback |-> "none"]

\* the page navigates without reload; the button goes with the old page or stays
Navigate ==
  /\ navigation # <<>>
  /\ navigation.navigations < MaxNavigations
  /\ \E location \in Locations \ {navigation.location}, keepsButton \in BOOLEAN :
       /\ navigation' = [navigation EXCEPT !.location = location, !.navigations = @ + 1,
                                          !.mutated = TRUE]
       /\ attached' = IF keepsButton THEN attached ELSE <<>>
  /\ UNCHANGED <<chunkSummary, waiter, fileHeader, popup, scan, synthesis, injection, keyReplies, variant, page, extracted,
                 backgroundVars, diff, buttons, initTimer, triggerTimers, cycles,
                 tabMessages, notification, form, lastCall>>

\* nodes are added to the document or removed from it while the page stays: by the
\* host page, or by the extension (a notice shown or removed)
DocumentMutation ==
  /\ navigation # <<>>
  /\ ~navigation.mutated
  /\ navigation' = [navigation EXCEPT !.mutated = TRUE]
  /\ UNCHANGED <<chunkSummary, waiter, fileHeader, popup, scan, synthesis, injection, keyReplies, variant, page, extracted,
                 cycleVars, backgroundVars>>

\* the callback that schedules initialize on a new URL without recording the URL
ObserveMutation_NoRecord ==
  /\ navigation # <<>>
  /\ navigation.mutated
  /\ navigation' =
       IF navigation.location # navigation.lastUrl
       THEN [navigation EXCEPT !.reinitTimers = @ + 1,
                               !.mutated = FALSE, !.lastCallback = "scheduled"]
       ELSE [navigation EXCEPT !.mutated = FALSE, !.lastCallback = "ignored"]
  /\ UNCHANGED <<chunkSummary, waiter, fileHeader, popup, scan, synthesis, injection, keyReplies, variant, page, extracted,
                 cycleVars, backgroundVars>>

\* the MutationObserver callback, run after nodes were added or removed: on a new
\* URL, lastUrl = url and setTimeout(initialize, 1000); else nothing
ObserveMutation ==
  /\ navigation # <<>>
  /\ navigation.mutated
  /\ navigation' =
       IF navigation.location # navigation.lastUrl
       THEN [navigation EXCEPT !.lastUrl = navigation.location, !.reinitTimers = @ + 1,
                               !.mutated = FALSE, !.lastCallback = "scheduled"]
       ELSE [navigation EXCEPT !.mutated = FALSE, !.lastCallback = "ignored"]
  /\ UNCHANGED <<chunkSummary, waiter, fileHeader, popup, scan, synthesis, injection, keyReplies, variant, page, extracted,
                 cycleVars, backgroundVars>>

\* the timer of the observer fires: initialize runs on the page shown now
ReinitializeTimer ==
  /\ navigation # <<>>
  /\ navigation.reinitTimers > 0
  /\ navigation' = [navigation EXCEPT
                      !.reinitTimers = @ - 1,
                      !.buttonTimers = IF isGitHubPR(navigation.location) THEN @ + 1 ELSE @]
  /\ UNCHANGED <<chunkSummary, waiter, fileHeader, popup, scan, synthesis, injection, keyReplies, variant, page, extracted,
                 cycleVars, backgroundVars>>

\* a timer of initialize fires: createGenerateButton runs, whatever the page is now
ButtonTimer ==
  /\ navigation # <<>>
  /\ navigation.buttonTimers > 0
  /\ navigation' = [navigation EXCEPT !.buttonTimers = @ - 1, !.mutated = TRUE]
  /\ createGenerateButton
  /\ UNCHANGED <<chunkSummary, waiter, fileHeader, popup, scan, synthesis, injection, keyReplies, variant, page, extracted,
                 backgroundVars, diff, initTimer, triggerTimers, cycles, tabMessages,
                 notification, form, lastCall>>

SpecNavigation ==
  InitNavigation
    /\ [][Navigate \/ DocumentMutation \/ ObserveMutation \/ ReinitializeTimer
            \/ ButtonTimer]_vars

\* C18: whenever the button that initialize created is in the document, the page
\* shown is on github.com and its path contains '/compare', or '/pull/new', or both
\* '/pull/' and '/edit'.
C18_ButtonOnlyOnSupportedPages ==
  attached # <<>> =>
    /\ navigation.location.hostname = <<"g","i","t","h","u","b",".","c","o","m">>
    /\ \/ includes(navigation.location.pathname, <<"/","c","o","m","p","a","r","e">>)
       \/ includes(navigation.location.pathname, <<"/","p","u","l","l","/","n","e","w">>)
       \/ /\ includes(navigation.location.pathname, <<"/","p","u","l","l","/">>)
          /\ includes(navigation.location.pathname, <<"/","e","d","i","t">>)

-----------------------------------------------------------------------------
(* generateChangeSummary(added, removed), the declaration of content.js     *)
(* 697-810, on its own: it is given the line records of one hunk.  (In the  *)
(* script the later declaration generateChangeSummary(files) takes the      *)
(* name; see generateChangeSummary above.)                                  *)

\* the sentence that the body of the declaration returns
generateChangeSummaryOfChunks(added, removed) ==
  LET Types(q) == Dedupe([i \in 1..Len(q) |-> q[i].type])
      Contexts(q) == Dedupe(SelectSeq([i \in 1..Len(q) |-> q[i].context],
                                      LAMBDA c : c # <<>>))
      Has(q, x) == \E i \in 1..Len(q) : q[i] = x
      InEither(q, r, x) == Has(q, x) \/ Has(r, x)
      Infos(q, type) ==
        LET of == SelectSeq(q, LAMBDA a : a.type = type)
        IN  Join([i \in 1..Len(of) |-> of[i].info], <<","," ">>)
      Rules(addedTypes, removedTypes, addedContexts, removedContexts) ==
        LET addedStateTypes == SelectSeq(addedContexts, LAMBDA c : includes(c, <<"s","t","a","t","e">>))
            removedStateTypes == SelectSeq(removedContexts, LAMBDA c : includes(c, <<"s","t","a","t","e">>))
            addedFunctions == SelectSeq(added, LAMBDA a : a.type = "function")
            removedFunctions == SelectSeq(removed, LAMBDA r : r.type = "function")
            addedImports == SelectSeq(added, LAMBDA a : a.type = "import")
            removedImports == SelectSeq(removed, LAMBDA r : r.type = "import")
        IN  IF addedStateTypes # <<>> /\ removedStateTypes # <<>>
            THEN <<"S","t","a","t","e"," ","m","a","n","a","g","e","m","e","n","t",":"," ","C","h","a","n","g","e","d"," ","f","r","o","m"," ">> \o Join(removedStateTypes, <<","," ">>)
                   \o <<" ","t","o"," ">> \o Join(addedStateTypes, <<","," ">>)
            ELSE IF addedStateTypes # <<>>
            THEN <<"A","d","d","e","d"," ">> \o Join(addedStateTypes, <<","," ">>) \o <<" ","i","m","p","l","e","m","e","n","t","a","t","i","o","n">>
            ELSE IF removedStateTypes # <<>>
            THEN <<"R","e","m","o","v","e","d"," ">> \o Join(removedStateTypes, <<","," ">>) \o <<" ","i","m","p","l","e","m","e","n","t","a","t","i","o","n">>
            ELSE IF InEither(addedContexts, removedContexts, <<"A","u","t","h","e","n","t","i","c","a","t","i","o","n"," ","s","y","s","t","e","m">>)
            THEN <<"U","p","d","a","t","e","d"," ","a","u","t","h","e","n","t","i","c","a","t","i","o","n"," ","s","y","s","t","e","m"," ","i","m","p","l","e","m","e","n","t","a","t","i","o","n">>
            ELSE IF InEither(addedContexts, removedContexts, <<"A","P","I"," ","i","n","t","e","g","r","a","t","i","o","n">>)
            THEN (IF \E i \in 1..Len(added) : added[i].type = "apiIntegration"
                  THEN <<"A","P","I"," ","i","n","t","e","g","r","a","t","i","o","n",":"," ","U","p","d","a","t","e","d"," ","e","n","d","p","o","i","n","t","s"," ","(">>
                         \o Infos(added, "apiIntegration") \o <<")">>
                  ELSE <<"U","p","d","a","t","e","d"," ","A","P","I"," ","i","n","t","e","g","r","a","t","i","o","n"," ","l","o","g","i","c">>)
            ELSE IF InEither(addedContexts, removedContexts, <<"N","a","v","i","g","a","t","i","o","n","/","r","o","u","t","i","n","g">>)
            THEN <<"U","p","d","a","t","e","d"," ","n","a","v","i","g","a","t","i","o","n"," ","a","n","d"," ","r","o","u","t","i","n","g"," ","i","m","p","l","e","m","e","n","t","a","t","i","o","n">>
            ELSE IF InEither(addedContexts, removedContexts, <<"F","o","r","m"," ","h","a","n","d","l","i","n","g">>)
            THEN <<"U","p","d","a","t","e","d"," ","f","o","r","m"," ","h","a","n","d","l","i","n","g"," ","a","n","d"," ","v","a","l","i","d","a","t","i","o","n"," ","l","o","g","i","c">>
            ELSE IF InEither(addedContexts, removedContexts, <<"D","a","t","a"," ","f","e","t","c","h","i","n","g">>)
            THEN <<"U","p","d","a","t","e","d"," ","d","a","t","a"," ","f","e","t","c","h","i","n","g"," ","a","n","d"," ","c","a","c","h","i","n","g"," ","l","o","g","i","c">>
            ELSE IF InEither(addedTypes, removedTypes, "function")
            THEN (IF addedFunctions # <<>> /\ removedFunctions = <<>>
                  THEN <<"A","d","d","e","d"," ","n","e","w"," ","f","u","n","c","t","i","o","n","s",":"," ">> \o Infos(added, "function")
                  ELSE IF removedFunctions # <<>> /\ addedFunctions = <<>>
                  THEN <<"R","e","m","o","v","e","d"," ","f","u","n","c","t","i","o","n","s",":"," ">> \o Infos(removed, "function")
                  ELSE IF addedFunctions # <<>> /\ removedFunctions # <<>>
                  THEN <<"R","e","f","a","c","t","o","r","e","d"," ","f","u","n","c","t","i","o","n","s",":"," ","r","e","p","l","a","c","e","d"," ">> \o Infos(removed, "function")
                         \o <<" ","w","i","t","h"," ">> \o Infos(added, "function")
                  ELSE <<"M","o","d","i","f","i","e","d"," ","f","u","n","c","t","i","o","n"," ","i","m","p","l","e","m","e","n","t","a","t","i","o","n","s">>)
            ELSE IF InEither(addedTypes, removedTypes, "import")
                    /\ addedImports # <<>> /\ removedImports # <<>>
            THEN <<"D","e","p","e","n","d","e","n","c","i","e","s",":"," ","R","e","p","l","a","c","e","d"," ">> \o Infos(removed, "import")
                   \o <<" ","w","i","t","h"," ">> \o Infos(added, "import")
            ELSE IF InEither(addedTypes, removedTypes, "import") /\ addedImports # <<>>
            THEN <<"A","d","d","e","d"," ","n","e","w"," ","d","e","p","e","n","d","e","n","c","i","e","s",":"," ">> \o Infos(added, "import")
            ELSE IF InEither(addedTypes, removedTypes, "import") /\ removedImports # <<>>
            THEN <<"R","e","m","o","v","e","d"," ","d","e","p","e","n","d","e","n","c","i","e","s",":"," ">> \o Infos(removed, "import")
            ELSE IF Has(addedTypes, "component")
            THEN <<"U","p","d","a","t","e","d"," ","R","e","a","c","t"," ","c","o","m","p","o","n","e","n","t","s",":"," ">> \o Infos(added, "component")
            ELSE IF InEither(addedTypes, removedTypes, "config")
            THEN <<"U","p","d","a","t","e","d"," ","c","o","n","f","i","g","u","r","a","t","i","o","n"," ","a","n","d"," ","e","n","v","i","r","o","n","m","e","n","t"," ","s","e","t","t","i","n","g","s">>
            ELSE IF Has(addedTypes, "styling")
            THEN <<"U","p","d","a","t","e","d"," ","s","t","y","l","i","n","g"," ","a","n","d"," ","U","I"," ","c","o","m","p","o","n","e","n","t","s">>
            ELSE IF Has(addedTypes, "testing")
            THEN <<"A","d","d","e","d","/","u","p","d","a","t","e","d"," ","t","e","s","t"," ","c","a","s","e","s"," ","a","n","d"," ","t","e","s","t","i","n","g"," ","l","o","g","i","c">>
            ELSE IF addedContexts # <<>>
            THEN <<"U","p","d","a","t","e","d"," ">> \o toLowerCase(Join(addedContexts, <<","," ">>)) \o <<" ","i","m","p","l","e","m","e","n","t","a","t","i","o","n">>
            ELSE IF Len(added) > Len(removed)
            THEN <<"A","d","d","e","d"," ">> \o NumberText(Len(added)) \o <<" ","l","i","n","e","s"," ","o","f"," ","n","e","w"," ","f","u","n","c","t","i","o","n","a","l","i","t","y">>
            ELSE IF Len(removed) > Len(added)
            THEN <<"R","e","m","o","v","e","d"," ">> \o NumberText(Len(removed))
                   \o <<" ","l","i","n","e","s"," ","o","f"," ","c","o","d","e"," ","a","n","d"," ","r","e","f","a","c","t","o","r","e","d"," ","i","m","p","l","e","m","e","n","t","a","t","i","o","n">>
            ELSE <<"R","e","f","a","c","t","o","r","e","d"," ">> \o NumberText(IF Len(added) > Len(removed) THEN Len(added)
                                             ELSE Len(removed)) \o <<" ","l","i","n","e","s"," ","o","f"," ","c","o","d","e">>
  IN  Rules(Types(added), Types(removed), Contexts(added), Contexts(removed))

MaxChunkLines == 2     \* added and removed lines of a hunk, together

\* cleaned diff lines, one or two for each rule of the summary
ChunkLines ==
  { <<"z","u","s","t","a","n","d">>, <<"r","e","d","u","x">>, <<"c","o","n","t","e","x","t",".","v","a","l","u","e">>, <<"M","y","C","o","n","t","e","x","t",".","u","s","e","S","t","a","t","e">>, <<"l","o","g","i","n","(","u","s","e","r",")">>,
    <<"a","x","i","o","s",".","g","e","t">>, <<"n","a","v","i","g","a","t","e","(","h","o","m","e",")">>, <<"f","o","r","m","i","k">>, <<"a","p","o","l","l","o">>, <<"c","l","a","s","s"," ","F","o","o">>,
    <<"i","m","p","o","r","t"," ","a"," ","f","r","o","m"," ","'","b","'">>, <<"<","B","u","t","t","o","n",">">>, <<"c","o","n","f","i","g",".","p","o","r","t">>, <<"t","a","i","l","w","i","n","d">>, <<"j","e","s","t",".","m","o","c","k">>,
    <<"r","e","t","u","r","n"," ","t","o","t","a","l">> }

\* the line records that extractCodeChanges pushes for the lines, numbered from index from
ChunkRecords(lines, from) ==
  LET Record(i, c) ==
        [content |-> lines[i], type |-> c.type, info |-> c.info, context |-> c.context,
         lineNumber |-> from + i - 1]
  IN  [i \in 1..Len(lines) |-> Record(i, ClassifyLine(lines[i]))]

InitChunkSummary ==
  /\ MainIdle
  /\ scan = <<>> /\ synthesis = <<>> /\ injection = <<>> /\ keyReplies = <<>>
  /\ navigation = <<>> /\ waiter = <<>> /\ fileHeader = <<>> /\ popup = <<>>
  /\ \E addedLines \in SeqsUpTo(ChunkLines, MaxChunkLines),
        removedLines \in SeqsUpTo(ChunkLines, MaxChunkLines) :
        /\ Len(addedLines) + Len(removedLines) <= MaxChunkLines
        /\ chunkSummary = [added |-> ChunkRecords(addedLines, 0),
                           removed |-> ChunkRecords(removedLines, Len(addedLines)),
                           done |-> FALSE, summary |-> <<>>]

\* the call returns
SummarizeChunks ==
  /\ chunkSummary # <<>>
  /\ ~chunkSummary.done
  /\ chunkSummary' =
       [chunkSummary EXCEPT
          !.done = TRUE,
          !.summary = generateChangeSummaryOfChunks(chunkSummary.added, chunkSummary.removed)]
  /\ UNCHANGED <<scan, synthesis, injection, keyReplies, navigation, waiter, fileHeader,
                 popup, variant, page, extracted, cycleVars, backgroundVars>>

SpecChunkSummary == InitChunkSummary /\ [][SummarizeChunks]_vars

-----------------------------------------------------------------------------
(* Claims about generateChangeSummary(added, removed)                      *)

\* C21: the summary of a hunk is one non-empty sentence, the sentence of the first rule
\* that applies in the order: state-management context, authentication context,
\* API-integration context, routing context, form-handling context, data-fetching
\* context, function kind, import kind, component kind, config kind, styling kind,
\* testing kind, and last the count of lines ('Added N lines...' when more lines are
\* added than removed, 'Removed N lines...' when more are removed, 'Refactored N
\* lines...' when as many).  (A context counts as state management here when it
\* contains 'state', and the component, styling and testing kinds count on the added
\* side, as the declaration tests them.)
C21_OneListedRule ==
  chunkSummary # <<>> /\ chunkSummary.done =>
    LET s == chunkSummary.summary
        added == chunkSummary.added
        removed == chunkSummary.removed
        both == added \o removed
        Starts(prefix) == startsWith(s, prefix)
        Ends(suffix) ==
          Len(s) >= Len(suffix) /\ SubSeq(s, Len(s) - Len(suffix) + 1, Len(s)) = suffix
        Ctx(label) == \E i \in 1..Len(both) : both[i].context = label
        Kind(q, type) == \E i \in 1..Len(q) : q[i].type = type
    IN  /\ s # <<>>
        /\ IF \E i \in 1..Len(both) : includes(both[i].context, <<"s","t","a","t","e">>)
           THEN \/ Starts(<<"S","t","a","t","e"," ","m","a","n","a","g","e","m","e","n","t",":"," ","C","h","a","n","g","e","d"," ","f","r","o","m"," ">>)
                \/ Starts(<<"A","d","d","e","d"," ">>) /\ Ends(<<" ","i","m","p","l","e","m","e","n","t","a","t","i","o","n">>)
                \/ Starts(<<"R","e","m","o","v","e","d"," ">>) /\ Ends(<<" ","i","m","p","l","e","m","e","n","t","a","t","i","o","n">>)
           ELSE IF Ctx(<<"A","u","t","h","e","n","t","i","c","a","t","i","o","n"," ","s","y","s","t","e","m">>)
           THEN s = <<"U","p","d","a","t","e","d"," ","a","u","t","h","e","n","t","i","c","a","t","i","o","n"," ","s","y","s","t","e","m"," ","i","m","p","l","e","m","e","n","t","a","t","i","o","n">>
           ELSE IF Ctx(<<"A","P","I"," ","i","n","t","e","g","r","a","t","i","o","n">>)
           THEN \/ Starts(<<"A","P","I"," ","i","n","t","e","g","r","a","t","i","o","n",":"," ","U","p","d","a","t","e","d"," ","e","n","d","p","o","i","n","t","s"," ","(">>)
                \/ s = <<"U","p","d","a","t","e","d"," ","A","P","I"," ","i","n","t","e","g","r","a","t","i","o","n"," ","l","o","g","i","c">>
           ELSE IF Ctx(<<"N","a","v","i","g","a","t","i","o","n","/","r","o","u","t","i","n","g">>)
           THEN s = <<"U","p","d","a","t","e","d"," ","n","a","v","i","g","a","t","i","o","n"," ","a","n","d"," ","r","o","u","t","i","n","g"," ","i","m","p","l","e","m","e","n","t","a","t","i","o","n">>
           ELSE IF Ctx(<<"F","o","r","m"," ","h","a","n","d","l","i","n","g">>)
           THEN s = <<"U","p","d","a","t","e","d"," ","f","o","r","m"," ","h","a","n","d","l","i","n","g"," ","a","n","d"," ","v","a","l","i","d","a","t","i","o","n"," ","l","o","g","i","c">>
           ELSE IF Ctx(<<"D","a","t","a"," ","f","e","t","c","h","i","n","g">>)
           THEN s = <<"U","p","d","a","t","e","d"," ","d","a","t","a"," ","f","e","t","c","h","i","n","g"," ","a","n","d"," ","c","a","c","h","i","n","g"," ","l","o","g","i","c">>
           ELSE IF Kind(both, "function")
           THEN \/ Starts(<<"A","d","d","e","d"," ","n","e","w"," ","f","u","n","c","t","i","o","n","s",":"," ">>)
                \/ Starts(<<"R","e","m","o","v","e","d"," ","f","u","n","c","t","i","o","n","s",":"," ">>)
                \/ Starts(<<"R","e","f","a","c","t","o","r","e","d"," ","f","u","n","c","t","i","o","n","s",":"," ","r","e","p","l","a","c","e","d"," ">>)
                \/ s = <<"M","o","d","i","f","i","e","d"," ","f","u","n","c","t","i","o","n"," ","i","m","p","l","e","m","e","n","t","a","t","i","o","n","s">>
           ELSE IF Kind(both, "import")
           THEN \/ Starts(<<"D","e","p","e","n","d","e","n","c","i","e","s",":"," ","R","e","p","l","a","c","e","d"," ">>)
                \/ Starts(<<"A","d","d","e","d"," ","n","e","w"," ","d","e","p","e","n","d","e","n","c","i","e","s",":"," ">>)
                \/ Starts(<<"R","e","m","o","v","e","d"," ","d","e","p","e","n","d","e","n","c","i","e","s",":"," ">>)
           ELSE IF Kind(added, "component")
           THEN Starts(<<"U","p","d","a","t","e","d"," ","R","e","a","c","t"," ","c","o","m","p","o","n","e","n","t","s",":"," ">>)
           ELSE IF Kind(both, "config")
           THEN s = <<"U","p","d","a","t","e","d"," ","c","o","n","f","i","g","u","r","a","t","i","o","n"," ","a","n","d"," ","e","n","v","i","r","o","n","m","e","n","t"," ","s","e","t","t","i","n","g","s">>
           ELSE IF Kind(added, "styling")
           THEN s = <<"U","p","d","a","t","e","d"," ","s","t","y","l","i","n","g"," ","a","n","d"," ","U","I"," ","c","o","m","p","o","n","e","n","t","s">>
           ELSE IF Kind(added, "testing")
           THEN s = <<"A","d","d","e","d","/","u","p","d","a","t","e","d"," ","t","e","s","t"," ","c","a","s","e","s"," ","a","n","d"," ","t","e","s","t","i","n","g"," ","l","o","g","i","c">>
           ELSE IF Len(added) > Len(removed)
           THEN s = <<"A","d","d","e","d"," ">> \o NumberText(Len(added)) \o <<" ","l","i","n","e","s"," ","o","f"," ","n","e","w"," ","f","u","n","c","t","i","o","n","a","l","i","t","y">>
           ELSE IF Len(removed) > Len(added)
           THEN s = <<"R","e","m","o","v","e","d"," ">> \o NumberText(Len(removed))
                      \o <<" ","l","i","n","e","s"," ","o","f"," ","c","o","d","e"," ","a","n","d"," ","r","e","f","a","c","t","o","r","e","d"," ","i","m","p","l","e","m","e","n","t","a","t","i","o","n">>
           ELSE s = <<"R","e","f","a","c","t","o","r","e","d"," ">> \o NumberText(Len(added)) \o <<" ","l","i","n","e","s"," ","o","f"," ","c","o","d","e">>

\* C22: when an added or a removed line of the hunk carries one of the classifier's
\* state-management labels ('Zustand state management', 'Redux state management',
\* 'React Context API', 'React local state'), the summary is a state-management
\* sentence: 'State management: Changed from ... to ...', 'Added ... implementation'
\* or 'Removed ... implementation' naming state-management labels.
C22_StateManagementFirst ==
  chunkSummary # <<>> /\ chunkSummary.done =>
    LET s == chunkSummary.summary
        both == chunkSummary.added \o chunkSummary.removed
        labels == {<<"Z","u","s","t","a","n","d"," ","s","t","a","t","e"," ","m","a","n","a","g","e","m","e","n","t">>, <<"R","e","d","u","x"," ","s","t","a","t","e"," ","m","a","n","a","g","e","m","e","n","t">>,
                   <<"R","e","a","c","t"," ","C","o","n","t","e","x","t"," ","A","P","I">>, <<"R","e","a","c","t"," ","l","o","c","a","l"," ","s","t","a","t","e">>}
        Lists == {Join(q, <<","," ">>) : q \in SeqsUpTo(labels, MaxChunkLines) \ {<<>>}}
    IN  (\E i \in 1..Len(both) : both[i].context \in labels) =>
          \/ \E old \in Lists, new \in Lists :
               s = <<"S","t","a","t","e"," ","m","a","n","a","g","e","m","e","n","t",":"," ","C","h","a","n","g","e","d"," ","f","r","o","m"," ">> \o old \o <<" ","t","o"," ">> \o new
          \/ \E new \in Lists : s = <<"A","d","d","e","d"," ">> \o new \o <<" ","i","m","p","l","e","m","e","n","t","a","t","i","o","n">>
          \/ \E old \in Lists : s = <<"R","e","m","o","v","e","d"," ">> \o old \o <<" ","i","m","p","l","e","m","e","n","t","a","t","i","o","n">>

-----------------------------------------------------------------------------
(* Claims about the cascade of extractCommitMessages, under SpecExtract    *)

\* C23: in the current version and in part_000, what extractCommitMessages returns is
\* taken from one level only: the texts of the first selector of the list, in list
\* order, whose elements leave a non-empty set after the filter, whatever the later
\* selectors match; the commit links only when no selector leaves anything; the lines
\* of the page text only when the links leave nothing either; the placeholder only
\* when the page text leaves nothing either.
C23_FirstSuccessWins ==
  (extracted.done /\ variant \in {"current", "part000"}) =>
    LET selectors == commitSelectors(variant)
        Yield(k) == SelectorCandidates(variant, page, selectors[k])
        yielding == {k \in 1..Len(selectors) : Yield(k) # <<>>}
        links == LinkCandidates(variant, page)
        lines == potentialCommits(page)
    IN  IF yielding # {}
        THEN \E k \in yielding :
               /\ \A j \in 1..(k - 1) : Yield(j) = <<>>
               /\ extracted.commits = Take(Yield(k), MaxCommits)
        ELSE IF links # <<>> THEN extracted.commits = Take(links, MaxCommits)
        ELSE IF lines # <<>> THEN extracted.commits = Take(lines, MaxCommits)
        ELSE extracted.commits = DefaultCommits

\* the extraction has run on a page where two selectors leave different non-empty
\* sets, and on which the commit links and the page text would yield entries too
C23_Witness ==
  /\ extracted.done
  /\ variant = "current"
  /\ LET selectors == commitSelectors(variant)
         Yield(k) == SelectorCandidates(variant, page, selectors[k])
     IN  \E k, j \in 1..Len(selectors) :
           /\ k < j
           /\ Yield(k) # <<>> /\ Yield(j) # <<>> /\ Yield(k) # Yield(j)
           /\ extracted.commits = Yield(k)
  /\ potentialCommits(page) # <<>>

-----------------------------------------------------------------------------
(* waitForElement (content.js 23-53, part_000 2-28): one call, the document *)
(* the selector is matched in, the observer's callback and the timer.      *)
(* Time passes in steps; a callback of the observer is a microtask and     *)
(* runs before any timer, and a timer that is due fires before more time   *)
(* passes.  delivered lists what the promise has handed to its reactions.  *)

DefaultTimeout == 10000
ShortTimeout == 5000    \* a timeout passed explicitly
TimeStep == 5000        \* how far the clock moves in one step
MaxTime == 15000        \* the clock stops here
MaxMutations == 3       \* changes of the document during the wait

InitWaiter ==
  /\ MainIdle
  /\ scan = <<>> /\ synthesis = <<>> /\ injection = <<>> /\ keyReplies = <<>>
  /\ navigation = <<>> /\ chunkSummary = <<>> /\ fileHeader = <<>> /\ popup = <<>>
  /\ \E present \in BOOLEAN, timeout \in {DefaultTimeout, ShortTimeout} :
       waiter = [called |-> FALSE, timeout |-> timeout, present |-> present,
                 lastChange |-> "none", promise |-> "pending", observing |-> FALSE,
                 records |-> FALSE, timer |-> "none", deadline |-> 0, now |-> 0,
                 mutations |-> 0, delivered |-> <<>>]

\* the ObserverCallback with obs.disconnect() left out
ObserverCallback_NoDisconnect ==
  /\ waiter # <<>>
  /\ waiter.observing /\ waiter.records
  /\ waiter' =
       IF waiter.present
       THEN [waiter EXCEPT
               !.records = FALSE,
               !.promise = IF @ = "pending" THEN "resolved" ELSE @,
               !.delivered = IF waiter.promise = "pending"
                             THEN Append(@, [event |-> "element", at |-> waiter.now, timer |-> waiter.timer])
                             ELSE @]
       ELSE [waiter EXCEPT !.records = FALSE]
  /\ UNCHANGED <<scan, synthesis, injection, keyReplies, navigation, chunkSummary,
                 fileHeader, popup, variant, page, extracted, cycleVars, backgroundVars>>

\* the executor of the promise runs: the element is there and the promise resolves,
\* or the observer and the timer are set up
waitForElement ==
  /\ waiter # <<>>
  /\ ~waiter.called
  /\ waiter' =
       IF waiter.present
       THEN [waiter EXCEPT
               !.called = TRUE, !.promise = "resolved",
               !.delivered = Append(@, [event |-> "element", at |-> waiter.now, timer |-> waiter.timer])]
       ELSE [waiter EXCEPT
               !.called = TRUE, !.observing = TRUE, !.timer = "pending",
               !.deadline = waiter.now + waiter.timeout]
  /\ UNCHANGED <<scan, synthesis, injection, keyReplies, navigation, chunkSummary,
                 fileHeader, popup, variant, page, extracted, cycleVars, backgroundVars>>

\* the page changes the document: the element is inserted or removed, another node is
\* inserted, or an attribute change makes the selector match or stop matching.  The
\* observer watches childList and subtree of the body: it gets a record for every
\* change but the attribute change.
MutateDocument ==
  /\ waiter # <<>>
  /\ waiter.mutations < MaxMutations
  /\ \E kind \in {"insert", "remove", "other", "attribute"} :
       /\ kind = "insert" => ~waiter.present
       /\ kind = "remove" => waiter.present
       /\ waiter' =
            [waiter EXCEPT
               !.mutations = @ + 1,
               !.present = CASE kind = "insert" -> TRUE
                             [] kind = "remove" -> FALSE
                             [] kind = "attribute" -> ~@
                             [] OTHER -> @,
               !.lastChange = IF kind = "other" THEN @ ELSE kind,
               !.records = @ \/ (waiter.observing /\ kind # "attribute")]
  /\ UNCHANGED <<scan, synthesis, injection, keyReplies, navigation, chunkSummary,
                 fileHeader, popup, variant, page, extracted, cycleVars, backgroundVars>>

\* the callback of the MutationObserver: if the selector matches now, disconnect and
\* resolve
ObserverCallback ==
  /\ waiter # <<>>
  /\ waiter.observing /\ waiter.records
  /\ waiter' =
       IF waiter.present
       THEN [waiter EXCEPT
               !.records = FALSE, !.observing = FALSE,
               !.promise = IF @ = "pending" THEN "resolved" ELSE @,
               !.delivered = IF waiter.promise = "pending"
                             THEN Append(@, [event |-> "element", at |-> waiter.now, timer |-> waiter.timer])
                             ELSE @]
       ELSE [waiter EXCEPT !.records = FALSE]
  /\ UNCHANGED <<scan, synthesis, injection, keyReplies, navigation, chunkSummary,
                 fileHeader, popup, variant, page, extracted, cycleVars, backgroundVars>>

\* the timer fires: disconnect and reject; reject does nothing to a settled promise.
\* The timer is not cleared when the promise resolves, so it fires in any case.
TimeoutFires ==
  /\ waiter # <<>>
  /\ waiter.timer = "pending"
  /\ waiter.now >= waiter.deadline
  /\ ~(waiter.observing /\ waiter.records)
  /\ waiter' =
       [waiter EXCEPT
          !.timer = "fired", !.observing = FALSE, !.records = FALSE,
          !.promise = IF @ = "pending" THEN "rejected" ELSE @,
          !.delivered = IF waiter.promise = "pending"
                        THEN Append(@, [event |-> "error", at |-> waiter.now, timer |-> "fired"])
                        ELSE @]
  /\ UNCHANGED <<scan, synthesis, injection, keyReplies, navigation, chunkSummary,
                 fileHeader, popup, variant, page, extracted, cycleVars, backgroundVars>>

\* time passes
AdvanceTime ==
  /\ waiter # <<>>
  /\ waiter.called
  /\ waiter.now < MaxTime
  /\ ~(waiter.observing /\ waiter.records)
  /\ ~(waiter.timer = "pending" /\ waiter.now >= waiter.deadline)
  /\ waiter' = [waiter EXCEPT !.now = @ + TimeStep]
  /\ UNCHANGED <<scan, synthesis, injection, keyReplies, navigation, chunkSummary,
                 fileHeader, popup, variant, page, extracted, cycleVars, backgroundVars>>

SpecWaiter ==
  InitWaiter /\ [][waitForElement \/ MutateDocument \/ ObserverCallback \/ TimeoutFires
                     \/ AdvanceTime]_vars

\* C24: waitForElement settles exactly once.  The promise hands at most one event to
\* its reactions, the element or the error, and its state says which; it resolves at
\* once when the element is there at the call; while it waits, an inserted element
\* that is in the document has the observer's callback queued, and the callback
\* resolves the promise if the timer has not fired yet; the error comes only from the
\* timer, at the deadline (the call time plus the timeout, 10000 ms by default) or
\* later, and once the timer has fired the promise is settled; a settled promise has
\* its observer disconnected.
C24_SettlesOnce ==
  waiter # <<>> =>
    /\ Len(waiter.delivered) <= 1
    /\ waiter.promise = "pending" <=> waiter.delivered = <<>>
    /\ waiter.promise = "resolved" =>
         /\ waiter.delivered[1].event = "element"
         /\ waiter.delivered[1].timer \in {"none", "pending"}
    /\ waiter.promise = "rejected" =>
         /\ waiter.delivered[1].event = "error"
         /\ waiter.timer = "fired"
         /\ waiter.delivered[1].at >= waiter.deadline
         /\ waiter.deadline = waiter.timeout
    /\ (waiter.called /\ waiter.timer = "none") =>
         waiter.delivered = <<[event |-> "element", at |-> 0, timer |-> "none"]>>
    /\ (waiter.observing /\ waiter.present /\ waiter.lastChange = "insert") =>
         waiter.records
    /\ waiter.timer = "fired" => waiter.promise # "pending"
    /\ waiter.promise # "pending" => ~waiter.observing

\* the promise was resolved by the observer's callback before the deadline, and the
\* timer has fired since, leaving the outcome as it was
C24_Witness ==
  /\ waiter # <<>>
  /\ waiter.timeout = DefaultTimeout
  /\ waiter.promise = "resolved"
  /\ waiter.timer = "fired"
  /\ waiter.delivered = <<[event |-> "element", at |-> TimeStep, timer |-> "pending"]>>

-----------------------------------------------------------------------------
(* Claims about the fallback of insertDescription, under SpecInjection     *)

\* C25: when no line of the text begins with 'Title:', or the last line that does has
\* nothing but blanks after the marker, the title insertDescription uses is the first
\* line trimmed, and the body is the lines after the first joined by newlines and
\* trimmed, whatever the loop had collected after a 'description:' marker.
C25_FirstLineFallback ==
  (injection # <<>> /\ injection.done /\ ~injection.threw) =>
    LET lines == SplitLines(injection.description.text)
        marker == <<"T","i","t","l","e",":">>
        titled == {i \in 1..Len(lines) : startsWith(lines[i], marker)}
        LastTitled == CHOOSE i \in titled : \A j \in titled : j <= i
        NoTitle ==
          \/ titled = {}
          \/ trim(SubSeq(lines[LastTitled], Len(marker) + 1, Len(lines[LastTitled]))) = <<>>
    IN  NoTitle =>
          /\ injection.title = trim(lines[1])
          /\ injection.body = trim(Join(SubSeq(lines, 2, Len(lines)), <<"\n">>))

\* a text without a title whose loop collected a body after the 'description:' marker,
\* different from the body the fallback sets
C25_Witness ==
  /\ injection # <<>> /\ injection.done /\ ~injection.threw
  /\ LET lines == SplitLines(injection.description.text)
     IN  /\ \A i \in 1..Len(lines) : ~startsWith(lines[i], <<"T","i","t","l","e",":">>)
         /\ ParseLines(lines, 1, [title |-> <<>>, body |-> <<>>,
                                  isDescription |-> FALSE]).body
              \notin {<<>>, injection.body}
         /\ injection.title = <<"B","a","r">>
         /\ injection.body # <<>>

-----------------------------------------------------------------------------
(* extractSingleFileChange (content.js 394-514) on its own, as far as the  *)
(* status goes: it is given a file header, of which the model keeps the    *)
(* filename its selectors find and the header's textContent.               *)

\* the status set first for 'deleted' or 'removed', then for 'added' or 'new file'
FileStatus_DeletedFirst(text) ==
  LET Status(headerText) ==
        IF includes(headerText, <<"d","e","l","e","t","e","d">>) \/ includes(headerText, <<"r","e","m","o","v","e","d">>)
        THEN "deleted"
        ELSE IF includes(headerText, <<"a","d","d","e","d">>) \/ includes(headerText, <<"n","e","w"," ","f","i","l","e">>)
        THEN "added"
        ELSE IF includes(headerText, <<"r","e","n","a","m","e","d">>) THEN "renamed"
        ELSE "modified"
  IN  Status(toLowerCase(text))

\* fileInfo.status for a header whose textContent is text
FileStatus(text) ==
  LET Status(headerText) ==
        IF includes(headerText, <<"a","d","d","e","d">>) \/ includes(headerText, <<"n","e","w"," ","f","i","l","e">>)
        THEN "added"
        ELSE IF includes(headerText, <<"d","e","l","e","t","e","d">>) \/ includes(headerText, <<"r","e","m","o","v","e","d">>)
        THEN "deleted"
        ELSE IF includes(headerText, <<"r","e","n","a","m","e","d">>) THEN "renamed"
        ELSE "modified"
  IN  Status(toLowerCase(text))

\* file names shown in a header; the empty one is a header no selector finds a name in
HeaderFilenames ==
  { <<>>, <<"s","r","c","/","a","p","p",".","j","s">>, <<"r","e","m","o","v","e","d","_","i","t","e","m","s",".","j","s">>, <<"R","e","n","a","m","e","d",".","t","x","t">>, <<"N","e","w","F","i","l","e",".","m","d">>, <<"R","E","A","D","M","E">> }

\* what else the header shows
HeaderLabels ==
  { <<>>, <<" ","A","d","d","e","d">>, <<" ","n","e","w"," ","f","i","l","e">>, <<" ","F","i","l","e"," ","d","e","l","e","t","e","d">>, <<" ","R","E","M","O","V","E","D">>, <<" ","r","e","n","a","m","e","d">>,
    <<" ","r","e","n","a","m","e","d"," ","a","n","d"," ","a","d","d","e","d">>, <<" ","d","e","l","e","t","e","d",","," ","t","h","e","n"," ","a","d","d","e","d">>, <<" ","d","e","l","e","t","e","d"," ","r","e","n","a","m","e","d">>, <<" ","m","o","d","i","f","i","e","d">>,
    <<" ","n","e","w","f","i","l","e">>, <<" ","N","e","w"," "," ","f","i","l","e">> }

InitFileHeader ==
  /\ MainIdle
  /\ scan = <<>> /\ synthesis = <<>> /\ injection = <<>> /\ keyReplies = <<>>
  /\ navigation = <<>> /\ chunkSummary = <<>> /\ waiter = <<>> /\ popup = <<>>
  /\ \E filename \in HeaderFilenames, label \in HeaderLabels :
       fileHeader = [filename |-> filename, textContent |-> filename \o label,
                     done |-> FALSE, returned |-> "nothing", status |-> "modified"]

\* the call returns fileInfo, or null when no filename was found
extractSingleFileChange ==
  /\ fileHeader # <<>>
  /\ ~fileHeader.done
  /\ fileHeader' =
       [fileHeader EXCEPT
          !.done = TRUE,
          !.status = FileStatus(fileHeader.textContent),
          !.returned = IF fileHeader.filename # <<>> THEN "fileInfo" ELSE "null"]
  /\ UNCHANGED <<scan, synthesis, injection, keyReplies, navigation, chunkSummary, waiter,
                 popup, variant, page, extracted, cycleVars, backgroundVars>>

SpecFileHeader == InitFileHeader /\ [][extractSingleFileChange]_vars

\* C26: the status of the file that extractSingleFileChange returns is 'added' if the
\* lower-cased text of the header contains 'added' or 'new file'; otherwise 'deleted'
\* if it contains 'deleted' or 'removed'; otherwise 'renamed' if it contains 'renamed';
\* otherwise 'modified'.  So it is one of the four, and 'added' wins over the others.
C26_StatusInference ==
  (fileHeader # <<>> /\ fileHeader.done /\ fileHeader.returned = "fileInfo") =>
    LET t == toLowerCase(fileHeader.textContent)
        Has(word) ==
          \E i \in 1..(Len(t) - Len(word) + 1) : SubSeq(t, i, i + Len(word) - 1) = word
        added == Has(<<"a","d","d","e","d">>) \/ Has(<<"n","e","w"," ","f","i","l","e">>)
        deleted == Has(<<"d","e","l","e","t","e","d">>) \/ Has(<<"r","e","m","o","v","e","d">>)
        renamed == Has(<<"r","e","n","a","m","e","d">>)
    IN  /\ fileHeader.status \in {"added", "modified", "deleted", "renamed"}
        /\ (fileHeader.status = "added") <=> added
        /\ (fileHeader.status = "deleted") <=> (~added /\ deleted)
        /\ (fileHeader.status = "renamed") <=> (~added /\ ~deleted /\ renamed)
        /\ (fileHeader.status = "modified") <=> (~added /\ ~deleted /\ ~renamed)

\* a returned file whose header shows 'deleted' before 'added', in capitals or not
C26_Witness ==
  /\ fileHeader # <<>> /\ fileHeader.done /\ fileHeader.returned = "fileInfo"
  /\ fileHeader.textContent = <<"s","r","c","/","a","p","p",".","j","s"," ","d","e","l","e","t","e","d",","," ","t","h","e","n"," ","a","d","d","e","d">>
  /\ fileHeader.status = "added"

-----------------------------------------------------------------------------
(* The button over the life of a tab: initialize and its timers, in-page   *)
(* navigation and the triggerGeneration messages of the popup, in any      *)
(* order.  The background script does not answer here: a cycle that was    *)
(* started stays open, and at most MaxInFlight are started.                *)

SpecButtons ==
  InitNavigation
    /\ [][Navigate \/ ObserveMutation \/ ReinitializeTimer \/ ButtonTimer
            \/ TriggerGeneration \/ TriggerTimer]_vars

\* C27: whatever initialize calls, re-initializations after navigation,
\* createGenerateButton calls and triggerGeneration messages have happened, the
\* document holds at most one element with the id 'pr-script-generate-btn'.
C27_AtMostOneButton == Len(attached) <= 1

\* without any navigation two buttons have been created, the second by the timer of
\* initialize while the first, created for a triggerGeneration message, was in the
\* document; the second is the one in the document
C27_Witness ==
  /\ navigation # <<>>
  /\ navigation.navigations = 0
  /\ Len(buttons) = 2
  /\ attached = <<2>>
  /\ lastCall.ran

-----------------------------------------------------------------------------
(* The popup on opening: it asks the background script for the key and     *)
(* fills its key field and its status line from the answer.                *)

\* the key the popup compares the answer with
PopupDefaultKey == "sk-or-v1-a52b"

\* the DOMContentLoaded handler of the popup: the getApiKey message is sent and the
\* answer awaited; the answer is the latest one of the background script, or the
\* message fails.  The popup is a fresh document each time it opens: its key field
\* is empty until the handler fills it.  reply is the index of the answer in
\* keyReplies, 0 when the message failed.
DOMContentLoaded ==
  /\ keyReplies # <<>>
  /\ \E delivered \in BOOLEAN :
       LET response == keyReplies[Len(keyReplies)]
           apiKey == IF response.kind = "apiKey" THEN response.key ELSE ""
           reply == IF delivered THEN Len(keyReplies) ELSE 0
       IN  /\ (IF popup = <<>> THEN TRUE ELSE popup.reply # reply)
           /\ popup' =
                IF ~delivered
                THEN [reply |-> 0, input |-> "", status |-> "Error loading API key"]
                ELSE IF apiKey # ""
                THEN IF apiKey # PopupDefaultKey
                     THEN [reply |-> reply, input |-> apiKey,
                           status |-> "Custom API key loaded"]
                     ELSE [reply |-> reply, input |-> "",
                           status |-> "Ready to generate PR descriptions!"]
                ELSE [reply |-> reply, input |-> "",
                      status |-> "API key configured and ready!"]
  /\ UNCHANGED <<chunkSummary, waiter, fileHeader, scan, synthesis, injection, keyReplies,
                 navigation, variant, page, extracted, cycleVars, backgroundVars>>

SpecPopup == InitBackground /\ [][SetApiKey \/ ReceiveGetApiKey \/ DOMContentLoaded]_vars

\* C28: when the popup has opened and received the answer to its getApiKey message,
\* its key field is filled, and 'Custom API key loaded' shown, only if the key of the
\* answer is a key the user stored; and when the answer is the default key of the
\* background script (no key being stored), the field is empty and the status is
\* 'Ready to generate PR descriptions!'.
C28_KeyDisplay ==
  (popup # <<>> /\ popup.reply # 0)
    => LET response == keyReplies[popup.reply]
       IN  /\ (popup.input # "" \/ popup.status = "Custom API key loaded")
                => (response.read = "ok" /\ response.key \in UserKeys)
           /\ ( /\ response.kind = "apiKey"
                /\ response.key # ""
                /\ response.key = DefaultKey(bgVariant, provider) )
                => ( /\ popup.input = ""
                     /\ popup.status = "Ready to generate PR descriptions!" )

-----------------------------------------------------------------------------
(* The description generateLocalPRDescription returns, read by the parser  *)
(* of insertDescription.  The commits are those of SynthCommits and commits *)
(* whose message speaks of a description.                                  *)

MaxRoundTripCommits == 2     \* commits in an argument

RoundTripCommits ==
  SynthCommits \cup { <<"U","p","d","a","t","e"," ","d","e","s","c","r","i","p","t","i","o","n",":"," ","t","y","p","o">>, <<"F","i","x"," ","P","R"," ","D","e","s","c","r","i","p","t","i","o","n",":"," ","f","i","e","l","d">> }

InitRoundTrip ==
  /\ MainIdle
  /\ chunkSummary = <<>> /\ waiter = <<>> /\ fileHeader = <<>> /\ popup = <<>>
  /\ scan = <<>>
  /\ injection = <<>>
  /\ keyReplies = <<>>
  /\ navigation = <<>>
  /\ \E bv \in {"detailed", "basic"},
        commits \in SeqsUpTo(RoundTripCommits, MaxRoundTripCommits),
        fileChanges \in SynthFileChanges,
        detailedAnalysis \in BOOLEAN :
        synthesis = [bv |-> bv, commits |-> commits, fileChanges |-> fileChanges,
                     detailedAnalysis |-> detailedAnalysis, done |-> FALSE, text |-> <<>>]

SpecRoundTrip == InitRoundTrip /\ [][Synthesize]_vars

\* C29: for every argument of generateLocalPRDescription, the parser of
\* insertDescription reads out of the returned text the title the synthesizer chose,
\* and a body among whose lines are all the numbered commit lines of the text, in
\* their order.
C29_RoundTrip ==
  synthesis.done =>
    LET parsed == ParsedDescription(synthesis.text)
        clean == cleanCommits(synthesis.commits)
        title == IF UsesFileChanges(synthesis.bv, synthesis.fileChanges,
                                    synthesis.detailedAnalysis)
                 THEN FileStatusTitle(synthesis.fileChanges.files)
                 ELSE CommitTitle(synthesis.commits)
        numbered == [k \in 1..Len(clean) |-> NumberText(k) \o <<".", " ">> \o clean[k]]
        bodyLines == SplitLines(parsed.body)
        RECURSIVE InOrder(_, _)
        \* the lines of numbered from the k-th on are among bodyLines from the i-th on
        InOrder(k, i) ==
          IF k > Len(numbered) THEN TRUE
          ELSE IF i > Len(bodyLines) THEN FALSE
          ELSE IF bodyLines[i] = numbered[k] THEN InOrder(k + 1, i + 1)
          ELSE InOrder(k, i + 1)
    IN  /\ parsed.title = title
        /\ InOrder(1, 1)

\* C30: a callback of the observer schedules one initialize when the URL differs from
\* lastUrl and none when it is the same, whatever was added to the document or
\* removed from it (the button of the extension included); no other step schedules
\* one; and after a callback lastUrl is the URL of the page.
C30_NavigationTracking ==
  [][ LET callback == navigation.mutated /\ ~navigation'.mutated
      IN  /\ callback =>
               /\ navigation'.location = navigation.location
               /\ navigation'.reinitTimers =
                    navigation.reinitTimers
                      + (IF navigation.location # navigation.lastUrl THEN 1 ELSE 0)
               /\ navigation'.lastUrl = navigation'.location
          /\ navigation'.reinitTimers > navigation.reinitTimers
               => callback /\ navigation.location # navigation.lastUrl
    ]_vars

\* the callback has scheduled initialize after a navigation, and the timer is still
\* waiting; the button was then inserted on the new page by the timer of the first
\* initialize, and the callback that followed scheduled nothing
C30_Witness ==
  /\ navigation # <<>>
  /\ navigation.navigations = 1
  /\ navigation.reinitTimers = 1
  /\ navigation.buttonTimers = 0
  /\ attached = <<1>>
  /\ ~navigation.mutated
  /\ navigation.lastCallback = "ignored"
  /\ navigation.lastUrl = navigation.location

====
